---- MODULE Spec2Model ----
(***************************************************************************)
(* DynamoSearch: inverted-index maintenance over a key-value store.        *)
(* The index table, the metadata record and every invocation of            *)
(* processRecords / reindex are modelled at the granularity of one store   *)
(* call per step (Query, BatchWriteItem, UpdateItem).                      *)
(***************************************************************************)
EXTENDS Integers, Sequences, FiniteSets, TLC

\* ------------------------------------------------------------------------
\* Bounds of the model
\* ------------------------------------------------------------------------
\* total number of change events handed to processRecords over a behaviour
\* (redelivered and retried events count again)
MaxEvents == 3
\* longest batch of records handed to one processRecords call
MaxBatchLen == 2
\* longest value of a key part handed to the key codec
MaxValueLen == 2
\* largest number of items in a page of a Query that the store cuts short
\* (a page that holds the whole answer may be longer)
MaxPageItems == 2

\* ------------------------------------------------------------------------
\* Program constants
\* ------------------------------------------------------------------------
BATCH_SIZE == 25
\* largest value of the two-byte occurrence field (2 ** 16 - 1)
MaxUInt16 == 65535

ATTR_META_DOCUMENT_COUNT == "dc"
ATTR_META_TOKEN_COUNT == "tc"

\* the attribute configuration of the DynamoSearch instance: one attribute
\* with a short storage name, one without
attributes ==
  << [name |-> "Title", shortName |-> "t"], [name |-> "Message"] >>

AttributeNames == { attributes[i].name : i \in DOMAIN attributes }

HasShortName(attr) == "shortName" \in DOMAIN attr

\* this.attributes[i].shortName || this.attributes[i].name
StorageName(attr) == IF HasShortName(attr) THEN attr.shortName ELSE attr.name

\* this.attributes.find(attr => attr.name === attributeName)?.shortName ?? attributeName
ShortNameOf(attributeName) ==
  IF \E i \in DOMAIN attributes :
       attributes[i].name = attributeName /\ HasShortName(attributes[i])
  THEN attributes[CHOOSE i \in DOMAIN attributes :
         /\ attributes[i].name = attributeName /\ HasShortName(attributes[i])
         /\ \A j \in DOMAIN attributes :
              (attributes[j].name = attributeName) => i <= j].shortName
  ELSE attributeName

\* this.attributes.find(attr => attr.shortName === shortName)?.name ?? shortName
AttributeNameOf(shortName) ==
  IF \E i \in DOMAIN attributes :
       HasShortName(attributes[i]) /\ attributes[i].shortName = shortName
  THEN attributes[CHOOSE i \in DOMAIN attributes :
         /\ HasShortName(attributes[i]) /\ attributes[i].shortName = shortName
         /\ \A j \in DOMAIN attributes :
              (HasShortName(attributes[j]) /\ attributes[j].shortName = shortName)
                => i <= j].name
  ELSE shortName

\* ------------------------------------------------------------------------
\* Helpers
\* ------------------------------------------------------------------------
Min(a, b) == IF a < b THEN a ELSE b

RECURSIVE SumSeq(_)
SumSeq(s) == IF s = << >> THEN 0 ELSE Head(s) + SumSeq(Tail(s))

\* Map.get(key) ?? 0
GetOr0(map, key) == IF key \in DOMAIN map THEN map[key] ELSE 0

\* Map.set(key, value)
MapSet(map, key, value) ==
  [x \in DOMAIN map \cup {key} |-> IF x = key THEN value ELSE map[x]]

EmptyMap == [x \in {} |-> 0]

\* ------------------------------------------------------------------------
\* Text analysis.  An attribute value is a sequence of runs [w, n]: the word
\* w written n times in a row, words separated by blanks.
\* ------------------------------------------------------------------------
ToLowerCase(word) ==
  CASE word = "New" -> "new"
    [] word = "NEW" -> "new"
    [] word = "Item!" -> "item!"
    [] word = "A" -> "a"
    [] word = "Old" -> "old"
    [] word = "OLD" -> "old"
    [] word = "ITEM!" -> "item!"
    [] OTHER -> word

\* StandardTokenizer.tokenize: one token per blank-separated segment (all
\* segments of the model are shorter than maxTokenLength)
tokenize(str) == [r \in DOMAIN str |-> [text |-> str[r].w, n |-> str[r].n]]

\* LowerCaseFilter
LowerCaseFilter(tokens) ==
  [r \in DOMAIN tokens |-> [text |-> ToLowerCase(tokens[r].text), n |-> tokens[r].n]]

\* Analyzer.analyze with StandardAnalyzer's pipeline (no character filter)
analyze(str) == LowerCaseFilter(tokenize(str))

\* result.length
ResultLength(result) == SumSeq([r \in DOMAIN result |-> result[r].n])

\* the Map `tokens` built by the counting loop: occurrences per token text
RECURSIVE CountTokens(_, _)
CountTokens(result, tokens) ==
  IF result = << >> THEN tokens
  ELSE CountTokens(Tail(result),
         MapSet(tokens, Head(result).text,
                GetOr0(tokens, Head(result).text) + Head(result).n))

\* [...tokens.entries()]: the distinct tokens in order of first insertion
RECURSIVE EntryKeys(_, _)
EntryKeys(result, seen) ==
  IF result = << >> THEN << >>
  ELSE IF Head(result).text \in seen THEN EntryKeys(Tail(result), seen)
       ELSE << Head(result).text >>
              \o EntryKeys(Tail(result), seen \cup {Head(result).text})

Entries(result) ==
  LET tokens == CountTokens(result, EmptyMap)
      keys == EntryKeys(result, {})
  IN [j \in DOMAIN keys |-> << keys[j], tokens[keys[j]] >>]

\* extractStringValues(item[name]) followed by flatMap(analyze); an item
\* without the attribute yields no token
AnalyzeAttribute(item, name) ==
  IF name \in DOMAIN item THEN analyze(item[name]) ELSE << >>

\* the tokenizer and the filters of an analyzer are supplied by the
\* application and may throw: the word on which the analyzer of the model's
\* attributes throws instead of returning tokens
ThrowingWord == "Throw"

\* analyze(str) throws
AnalyzeThrows(str) == \E r \in DOMAIN str : str[r].w = ThrowingWord

\* the flatMap over the attribute's values throws
AnalyzeAttributeThrows(item, name) ==
  name \in DOMAIN item /\ AnalyzeThrows(item[name])

\* ------------------------------------------------------------------------
\* Key codec
\* ------------------------------------------------------------------------
Delimiter == ";"
Escape == "\\"

\* an escaping that leaves the escape character itself alone
RECURSIVE EscapeValue_DelimiterOnly(_)
EscapeValue_DelimiterOnly(v) ==
  IF v = << >> THEN << >>
  ELSE (IF Head(v) = Delimiter THEN << Escape, Delimiter >> ELSE << Head(v) >>)
       \o EscapeValue_DelimiterOnly(Tail(v))

\* value.replaceAll(escape, escape+escape).replaceAll(delimiter, escape+delimiter)
RECURSIVE EscapeValue(_)
EscapeValue(v) ==
  IF v = << >> THEN << >>
  ELSE (IF Head(v) = Escape THEN << Escape, Escape >>
        ELSE IF Head(v) = Delimiter THEN << Escape, Delimiter >>
        ELSE << Head(v) >>) \o EscapeValue(Tail(v))

RECURSIVE encodeKeys(_)
encodeKeys(keys) ==
  IF keys = << >> THEN << >>
  ELSE << Head(keys).tag >> \o EscapeValue(Head(keys).value)
       \o (IF Len(keys) > 1 THEN << Delimiter >> ELSE << >>)
       \o encodeKeys(Tail(keys))

\* the source table has a partition key only (keys: [{name: 'Id', type: 'HASH'}])
getEncodedKeys(item) == encodeKeys(<< item.Id >>)

\* ------------------------------------------------------------------------
\* createHash('md5'): the MD5 digest of RFC 1321, computed on bytes.  A 32-bit
\* word is the pair << high, low >> of its 16-bit halves.
\* ------------------------------------------------------------------------
Half == 0..65535

Word == Half \X Half

\* the bitwise and of two 16-bit numbers
And16[a \in Half, b \in Half] ==
  IF a = 0 \/ b = 0 THEN 0 ELSE (a % 2) * (b % 2) + 2 * And16[a \div 2, b \div 2]

WordAnd[x \in Word, y \in Word] == << And16[x[1], y[1]], And16[x[2], y[2]] >>

WordOr[x \in Word, y \in Word] ==
  << x[1] + y[1] - And16[x[1], y[1]], x[2] + y[2] - And16[x[2], y[2]] >>

WordXor[x \in Word, y \in Word] ==
  << x[1] + y[1] - 2 * And16[x[1], y[1]], x[2] + y[2] - 2 * And16[x[2], y[2]] >>

WordNot[x \in Word] == << 65535 - x[1], 65535 - x[2] >>

\* x + y modulo 2^32
WordAdd[x \in Word, y \in Word] ==
  << (x[1] + y[1] + ((x[2] + y[2]) \div 65536)) % 65536, (x[2] + y[2]) % 65536 >>

\* x rotated left by c bits, 0 <= c < 32
RotateLeft[x \in Word, c \in 0..31] ==
  LET y == IF c >= 16 THEN << x[2], x[1] >> ELSE x
      p == 2 ^ (c % 16)
      q == 65536 \div p
  IN << ((y[1] * p) % 65536) + (y[2] \div q), ((y[2] * p) % 65536) + (y[1] \div q) >>

\* floor(2^32 * abs(sin(i))) for i = 1..64
Md5Sines ==
  << << 55146, 42104 >>, << 59591, 46934 >>, << 9248, 28891 >>, << 49597, 52974 >>,
     << 62844, 4015 >>, << 18311, 50730 >>, << 43056, 17939 >>, << 64838, 38145 >>,
     << 27008, 39128 >>, << 35652, 63407 >>, << 65535, 23473 >>, << 35164, 55230 >>,
     << 27536, 4386 >>, << 64920, 29075 >>, << 42617, 17294 >>, << 18868, 2081 >>,
     << 63006, 9570 >>, << 49216, 45888 >>, << 9822, 23121 >>, << 59830, 51114 >>,
     << 54831, 4189 >>, << 580, 5203 >>, << 55457, 59009 >>, << 59347, 64456 >>,
     << 8673, 52710 >>, << 49975, 2006 >>, << 62677, 3463 >>, << 17754, 5357 >>,
     << 43491, 59653 >>, << 64751, 41976 >>, << 26479, 729 >>, << 36138, 19594 >>,
     << 65530, 14658 >>, << 34673, 63105 >>, << 28061, 24866 >>, << 64997, 14348 >>,
     << 42174, 59972 >>, << 19422, 53161 >>, << 63163, 19296 >>, << 48831, 48240 >>,
     << 10395, 32454 >>, << 60065, 10234 >>, << 54511, 12421 >>, << 1160, 7429 >>,
     << 55764, 53305 >>, << 59099, 39397 >>, << 8098, 31992 >>, << 50348, 22117 >>,
     << 62505, 8772 >>, << 17194, 65431 >>, << 43924, 9127 >>, << 64659, 41017 >>,
     << 25947, 22979 >>, << 36620, 52370 >>, << 65519, 62589 >>, << 34180, 24017 >>,
     << 28584, 32335 >>, << 65068, 59104 >>, << 41729, 17172 >>, << 19976, 4513 >>,
     << 63315, 32386 >>, << 48442, 62005 >>, << 10967, 53947 >>, << 60294, 54161 >> >>

\* the rotation of each of the 64 steps
Md5Shifts ==
  << 7, 12, 17, 22, 7, 12, 17, 22, 7, 12, 17, 22, 7, 12, 17, 22,
     5, 9, 14, 20, 5, 9, 14, 20, 5, 9, 14, 20, 5, 9, 14, 20,
     4, 11, 16, 23, 4, 11, 16, 23, 4, 11, 16, 23, 4, 11, 16, 23,
     6, 10, 15, 21, 6, 10, 15, 21, 6, 10, 15, 21, 6, 10, 15, 21 >>

\* the four state words A, B, C, D at the start
Md5Start == << << 26437, 8961 >>, << 61389, 43913 >>, << 39098, 56574 >>, << 4146, 21622 >> >>

Md5State == [1..4 -> Word]

Md5Block == [1..16 -> Word]

Bytes == Seq(0..255)

\* the message followed by the byte 128, zero bytes up to 56 modulo 64 and
\* the length of the message in bits as 8 bytes, low byte first
Md5Padded[bytes \in Bytes] ==
  bytes \o << 128 >> \o [k \in 1..((119 - (Len(bytes) % 64)) % 64) |-> 0]
    \o << (8 * Len(bytes)) % 256, ((8 * Len(bytes)) \div 256) % 256,
          ((8 * Len(bytes)) \div 65536) % 256, ((8 * Len(bytes)) \div 16777216) % 256,
          0, 0, 0, 0 >>

\* the 16 words of a block of 64 bytes, low byte first
Md5Words[block \in Bytes] ==
  [j \in 1..16 |-> << block[4 * j - 1] + 256 * block[4 * j],
                      block[4 * j - 3] + 256 * block[4 * j - 2] >>]

\* the function of b, c, d mixed in at step i
Md5Mix[i \in 0..63, b \in Word, c \in Word, d \in Word] ==
  IF i < 16 THEN WordOr[WordAnd[b, c], WordAnd[WordNot[b], d]]
  ELSE IF i < 32 THEN WordOr[WordAnd[d, b], WordAnd[WordNot[d], c]]
  ELSE IF i < 48 THEN WordXor[b, WordXor[c, d]]
  ELSE WordXor[c, WordOr[b, WordNot[d]]]

\* the index of the message word used at step i
Md5Index[i \in 0..63] ==
  IF i < 16 THEN i
  ELSE IF i < 32 THEN (5 * i + 1) % 16
  ELSE IF i < 48 THEN (3 * i + 5) % 16
  ELSE (7 * i) % 16

\* step i (0..63) on the state << a, b, c, d >>
Md5Step[s \in Md5State, i \in 0..63, w \in Md5Block] ==
  << s[4],
     WordAdd[s[2],
             RotateLeft[WordAdd[WordAdd[Md5Mix[i, s[2], s[3], s[4]], s[1]],
                                WordAdd[Md5Sines[i + 1], w[Md5Index[i] + 1]]],
                        Md5Shifts[i + 1]]],
     s[2],
     s[3] >>

\* the state after the steps i..63
Md5Steps[s \in Md5State, i \in 0..64, w \in Md5Block] ==
  IF i = 64 THEN s ELSE Md5Steps[Md5Step[s, i, w], i + 1, w]

\* the state s with the words of t added
Md5Sum[s \in Md5State, t \in Md5State] == [j \in 1..4 |-> WordAdd[s[j], t[j]]]

\* the state after the blocks of the padded message
Md5Blocks[s \in Md5State, bytes \in Bytes] ==
  IF bytes = << >> THEN s
  ELSE Md5Blocks[Md5Sum[s, Md5Steps[s, 0, Md5Words[SubSeq(bytes, 1, 64)]]],
                 SubSeq(bytes, 65, Len(bytes))]

\* the 16 bytes of the words A, B, C, D, low byte first
Md5Bytes[s \in Md5State] ==
  [k \in 1..16 |->
     IF (k - 1) % 4 = 0 THEN s[(k - 1) \div 4 + 1][2] % 256
     ELSE IF (k - 1) % 4 = 1 THEN s[(k - 1) \div 4 + 1][2] \div 256
     ELSE IF (k - 1) % 4 = 2 THEN s[(k - 1) \div 4 + 1][1] % 256
     ELSE s[(k - 1) \div 4 + 1][1] \div 256]

\* the digest of a message
Md5Digest(bytes) == Md5Bytes[Md5Blocks[Md5Start, Md5Padded[bytes]]]

\* the code of a character of an encoded key; each of them is one byte of
\* the UTF-8 form of the string
CharCode(c) ==
  CASE c = Delimiter -> 59
    [] c = Escape -> 92
    [] c = "0" -> 48
    [] c = "1" -> 49
    [] c = "2" -> 50
    [] c = "3" -> 51
    [] c = "4" -> 52
    [] c = "5" -> 53
    [] c = "6" -> 54
    [] c = "7" -> 55
    [] c = "8" -> 56
    [] c = "9" -> 57
    [] c = "B" -> 66
    [] c = "N" -> 78
    [] c = "S" -> 83
    [] c = "a" -> 97

\* hash.update(encodedKeys): the UTF-8 bytes of the string
Utf8(encodedKeys) == [i \in 1..Len(encodedKeys) |-> CharCode(encodedKeys[i])]

\* hash.copy(buffer, 6, 0, 8) / hash.subarray(0, 1): the leading bytes of the
\* digest
HashPrefix(hash, bytes) == SubSeq(hash, 1, bytes)

\* the order of two byte strings: byte by byte, a proper prefix first
RECURSIVE BytesLess(_, _)
BytesLess(x, y) ==
  IF y = << >> THEN FALSE
  ELSE IF x = << >> THEN TRUE
  ELSE IF Head(x) # Head(y) THEN Head(x) < Head(y)
  ELSE BytesLess(Tail(x), Tail(y))

\* ------------------------------------------------------------------------
\* Documents and change events of the model
\* ------------------------------------------------------------------------
DocumentIds == { << "1", "0", "1" >>, << "1", "0", "2" >> }

\* two numeric keys whose encoded keys 'N8694436105886517788' and
\* 'N14630319779100767347' have md5 digests with the same first 8 bytes
CollidingIds ==
  { << "8", "6", "9", "4", "4", "3", "6", "1", "0", "5", "8", "8", "6", "5", "1", "7", "7", "8", "8" >>,
    << "1", "4", "6", "3", "0", "3", "1", "9", "7", "7", "9", "1", "0", "0", "7", "6", "7", "3", "4", "7" >> }

KeyOf(id) == [tag |-> "N", value |-> id]

\* the digests of the encoded keys of the model's documents, computed once
IndexedKeys == { encodeKeys(<< KeyOf(id) >>) : id \in DocumentIds \cup CollidingIds }

Digests == { << k, Md5Digest(Utf8(k)) >> : k \in IndexedKeys }

\* createHash('md5').update(encodedKeys).digest(): the 16 bytes of the digest
md5(encodedKeys) ==
  IF encodedKeys \in IndexedKeys
  THEN (CHOOSE d \in Digests : d[1] = encodedKeys)[2]
  ELSE Md5Digest(Utf8(encodedKeys))

\* attribute values a document of the model can carry
ContentNone == [x \in {} |-> << >>]
ContentSmall ==
  [Title |-> << [w |-> "New", n |-> 1] >>,
   Message |-> << [w |-> "New", n |-> 1], [w |-> "Item!", n |-> 1],
                  [w |-> "NEW", n |-> 1] >>]
\* one word written 2^16 times, followed by a word of ContentSmall
ContentLong ==
  [Message |-> << [w |-> "A", n |-> MaxUInt16 + 1], [w |-> "New", n |-> 1] >>]

Contents == { ContentNone, ContentSmall, ContentLong }

\* the first document takes every content, the second one shares the tokens
\* of ContentSmall with it
ContentsOf(id) == IF id = << "1", "0", "1" >> THEN Contents ELSE { ContentSmall }

\* the row image {Id, ...attributes}
ItemOf(id, content) ==
  [x \in {"Id"} \cup DOMAIN content |-> IF x = "Id" THEN KeyOf(id) ELSE content[x]]

Items == UNION { { ItemOf(id, c) : c \in ContentsOf(id) } : id \in DocumentIds }

\* DynamoDBRecord: eventName, dynamodb.Keys and (INSERT, MODIFY) dynamodb.NewImage
Records ==
  { [eventName |-> e, Keys |-> [Id |-> it.Id], NewImage |-> it] :
      e \in {"INSERT", "MODIFY"}, it \in Items }
  \cup { [eventName |-> "REMOVE", Keys |-> [Id |-> KeyOf(id)]] : id \in DocumentIds }

RECURSIVE SeqsUpTo(_, _)
SeqsUpTo(S, n) ==
  IF n = 0 THEN { << >> }
  ELSE LET shorter == SeqsUpTo(S, n - 1)
       IN shorter \cup { Append(s, x) : s \in { t \in shorter : Len(t) = n - 1 }, x \in S }

\* ------------------------------------------------------------------------
\* The index table: a set of items with primary key (p, s)
\* ------------------------------------------------------------------------
\* a posting whose two counters are written to each other's offset
PostingItem_SwappedCounters(item, attr, token, occurrence, resultLength) ==
  LET encodedKeys == getEncodedKeys(item)
      hash == md5(encodedKeys)
  IN [p |-> << StorageName(attr), token >>,
      s |-> [occ |-> Min(MaxUInt16, resultLength), len |-> occurrence,
             hash |-> HashPrefix(hash, 8)],
      k |-> encodedKeys,
      h |-> HashPrefix(hash, 1)]

\* the posting built by the map callback of insertTokens
PostingItem(item, attr, token, occurrence, resultLength) ==
  LET encodedKeys == getEncodedKeys(item)
      hash == md5(encodedKeys)
  IN [p |-> << StorageName(attr), token >>,
      \* writeUInt32BE(Math.min(2 ** 32 - 1, result.length)): an array is never
      \* longer than 2 ** 32 - 1, so the second minimum is result.length
      s |-> [occ |-> Min(MaxUInt16, occurrence), len |-> resultLength,
             hash |-> HashPrefix(hash, 8)],
      k |-> encodedKeys,
      h |-> HashPrefix(hash, 1)]

\* a put that adds the new occurrence to the one an item with the same
\* primary key already stores
PutItem_AddOccurrence(tbl, it) ==
  { x \in tbl : ~(x.p = it.p /\ x.s = it.s) }
    \cup { IF \E x \in tbl : x.p = it.p /\ x.s = it.s
           THEN [it EXCEPT !.s.occ = Min(MaxUInt16, @ + it.s.occ)]
           ELSE it }

\* PutRequest: replaces the item with the same primary key
PutItem(tbl, it) == { x \in tbl : ~(x.p = it.p /\ x.s = it.s) } \cup { it }

RECURSIVE PutItems(_, _)
PutItems(tbl, its) ==
  IF its = << >> THEN tbl ELSE PutItems(PutItem(tbl, Head(its)), Tail(its))

\* a delete that drops the last key of the request
DeleteItems_DropsLast(tbl, keys) ==
  { x \in tbl : ~ \E j \in 1..(Len(keys) - 1) : keys[j].p = x.p /\ keys[j].s = x.s }

\* DeleteRequest for every key of the sequence
DeleteItems(tbl, keys) ==
  { x \in tbl : ~ \E j \in DOMAIN keys : keys[j].p = x.p /\ keys[j].s = x.s }

RECURSIVE SetToSeq(_)
SetToSeq(S) ==
  IF S = {} THEN << >>
  ELSE LET x == CHOOSE y \in S : TRUE IN << x >> \o SetToSeq(S \ {x})

\* a lookup that returns the first item only
QueryKeysIndex_FirstOnly(tbl, encodedKeys) ==
  LET items == SetToSeq({ [p |-> x.p, s |-> x.s] : x \in { y \in tbl : y.k = encodedKeys } })
  IN SubSeq(items, 1, Min(1, Len(items)))

\* Query on keys-index (#keys = :keys), projection #pk, #sk
QueryKeysIndex(tbl, encodedKeys) ==
  SetToSeq({ [p |-> x.p, s |-> x.s] : x \in { y \in tbl : y.k = encodedKeys } })

\* a slice that takes one element more than asked for
Slice_OneMore(seq, from, to) == SubSeq(seq, from + 1, Min(to + 1, Len(seq)))

\* array.slice(from, to) with 0-based bounds
Slice(seq, from, to) == SubSeq(seq, from + 1, Min(to, Len(seq)))

\* ------------------------------------------------------------------------
\* The metadata record: a map from attribute name to number, empty while
\* the record does not exist
\* ------------------------------------------------------------------------
TokenCountName(shortName) == ATTR_META_TOKEN_COUNT \o ":" \o shortName

\* SET #attr = :val, an overwrite instead of an increment
SetIfNotExistsPlus_Overwrite(record, name, val) == MapSet(record, name, val)

\* SET #attr = if_not_exists(#attr, :zero) + :val
SetIfNotExistsPlus(record, name, val) == MapSet(record, name, GetOr0(record, name) + val)

RECURSIVE ApplyTokenCounts(_, _, _)
ApplyTokenCounts(record, resultMap, names) ==
  IF names = {} THEN record
  ELSE LET attributeName == CHOOSE x \in names : TRUE
       IN ApplyTokenCounts(
            SetIfNotExistsPlus(record, TokenCountName(ShortNameOf(attributeName)),
                               resultMap[attributeName]),
            resultMap, names \ {attributeName})

\* an update that is issued twice
updateMetadata_Twice(record, count, resultMap) ==
  ApplyTokenCounts(
    ApplyTokenCounts(
      SetIfNotExistsPlus(SetIfNotExistsPlus(record, ATTR_META_DOCUMENT_COUNT, count),
                         ATTR_META_DOCUMENT_COUNT, count),
      resultMap, DOMAIN resultMap),
    resultMap, DOMAIN resultMap)

\* the UpdateItem of updateMetadata, applied atomically by the store
updateMetadata(record, count, resultMap) ==
  ApplyTokenCounts(SetIfNotExistsPlus(record, ATTR_META_DOCUMENT_COUNT, count),
                   resultMap, DOMAIN resultMap)


\* ------------------------------------------------------------------------
\* One invocation of processRecords or reindex.  Its local state `l`:
\*   op, records (the argument), i (index of the current record, from 1),
\*   count, resultMap, and inside deleteTokens: items, di (the loop offset),
\*   deleted; inside insertTokens: ai (index of the attribute, from 1),
\*   ej (the loop offset into entries), inserted.
\* exclusiveStartKey is undefined while items is empty and is the last key of
\* items afterwards.  keys-index has a hash key only, so the order in which it
\* lists the postings of a document is the store's: ahead holds the keys the
\* last answer left behind its LastEvaluatedKey, skipped the keys that entered
\* the index before the exclusiveStartKey while the loop was running.
\* pc names the store call the invocation issues next:
\*   "query" a Query on keys-index of deleteTokens, "del" a BatchWriteItem of
\*   DeleteRequests, "ins" a BatchWriteItem of PutRequests, "meta" the
\*   UpdateItem of updateMetadata; "done" returned, "failed" rejected with
\*   the error of a store call, "threw" rejected with the error of the analyzer.
\* mode, preTable, preMeta, preDocs, firstTable, firstMeta record how the call
\* was started and what the store and the source table held then; the
\* program does not read them.
\* ------------------------------------------------------------------------
IdleCall ==
  [op |-> "none", pc |-> "idle", records |-> << >>, i |-> 1, count |-> 0,
   resultMap |-> EmptyMap, items |-> << >>, ahead |-> {}, skipped |-> {},
   di |-> 0, deleted |-> 0,
   ai |-> 1, ej |-> 0, inserted |-> 0,
   mode |-> "none", preTable |-> {}, preMeta |-> EmptyMap, preDocs |-> << >>,
   firstTable |-> {}, firstMeta |-> EmptyMap]

\* record.dynamodb.Keys for a stream record, the item itself for reindex
KeysOf(l) ==
  IF l.op = "reindex" THEN l.records[l.i] ELSE l.records[l.i].Keys

\* record.dynamodb.NewImage for a stream record, the item itself for reindex
NewImageOf(l) ==
  IF l.op = "reindex" THEN l.records[l.i] ELSE l.records[l.i].NewImage

\* deleteTokens called for REMOVE only: a MODIFY that does not delete first
CallsDeleteTokens_RemoveOnly(l) ==
  l.op = "reindex" \/ l.records[l.i].eventName \in {"REMOVE"}

\* eventName === 'MODIFY' || eventName === 'REMOVE'; reindex always deletes
CallsDeleteTokens(l) ==
  l.op = "reindex" \/ l.records[l.i].eventName \in {"MODIFY", "REMOVE"}

\* eventName === 'MODIFY' || eventName === 'INSERT'; reindex always inserts
CallsInsertTokens(l) ==
  l.op = "reindex" \/ l.records[l.i].eventName \in {"MODIFY", "INSERT"}

\* a count lowered by every deleteTokens call, whatever it deleted
CountAfterDelete_Always(count, deleted) == count - 1

\* if (deleted > 0) count--
CountAfterDelete(count, deleted) == IF deleted > 0 THEN count - 1 ELSE count

\* if (inserted > 0) count++
CountAfterInsert(count, inserted) == IF inserted > 0 THEN count + 1 ELSE count

\* the code between two store calls: loop heads, local bookkeeping and the
\* returns of deleteTokens / insertTokens.  "rec", "afterDel" and "attr" are
\* positions that issue no store call.
RECURSIVE Settle(_)
Settle(l) ==
  CASE l.pc = "rec" ->
         IF l.i > Len(l.records) THEN [l EXCEPT !.pc = "meta"]
         ELSE IF CallsDeleteTokens(l) THEN [l EXCEPT !.pc = "query"]
         ELSE Settle([l EXCEPT !.pc = "attr", !.ai = 1, !.inserted = 0])
    [] l.pc = "afterDel" ->
         LET c == CountAfterDelete(l.count, l.deleted)
         IN IF CallsInsertTokens(l)
            THEN Settle([l EXCEPT !.count = c, !.deleted = 0, !.pc = "attr",
                                  !.ai = 1, !.inserted = 0])
            ELSE Settle([l EXCEPT !.count = c, !.deleted = 0, !.pc = "rec",
                                  !.i = @ + 1])
    [] l.pc = "attr" ->
         IF l.ai > Len(attributes)
         \* inserted keeps what insertTokens returned until insertTokens is
         \* called again
         THEN Settle([l EXCEPT !.count = CountAfterInsert(@, l.inserted),
                               !.ai = 1, !.pc = "rec", !.i = @ + 1])
         ELSE LET name == attributes[l.ai].name
                  result == AnalyzeAttribute(NewImageOf(l), name)
                  rm == MapSet(l.resultMap, name,
                               GetOr0(l.resultMap, name) + ResultLength(result))
              IN IF AnalyzeAttributeThrows(NewImageOf(l), name)
                 THEN [l EXCEPT !.pc = "threw"]
                 ELSE IF Entries(result) = << >>
                 THEN Settle([l EXCEPT !.resultMap = rm, !.ai = @ + 1])
                 ELSE [l EXCEPT !.resultMap = rm, !.pc = "ins", !.ej = 0]
    [] OTHER -> l

NewCall(op, records, mode, tbl, record, d, firstTbl, firstRecord) ==
  Settle([IdleCall EXCEPT !.op = op, !.pc = "rec", !.records = records,
                          !.mode = mode, !.preTable = tbl, !.preMeta = record,
                          !.preDocs = d,
                          !.firstTable = firstTbl, !.firstMeta = firstRecord])

\* deleteTokens, the loop over the found items: resultMap[attribute] -= occurrence
RECURSIVE SubtractOccurrences(_, _)
SubtractOccurrences(resultMap, items) ==
  IF items = << >> THEN resultMap
  ELSE LET shortName == Head(items).p[1]
           attributeName == AttributeNameOf(shortName)
           occurrence == Head(items).s.occ
       IN SubtractOccurrences(
            MapSet(resultMap, attributeName, GetOr0(resultMap, attributeName) - occurrence),
            Tail(items))

\* deleted += items.length, once per BatchWriteItem call
DeletedAfterBatch(deleted, items) == deleted + Len(items)

\* the PutRequests of one BatchWriteItem call of insertTokens
PutRequests(item, attr, from) ==
  LET result == AnalyzeAttribute(item, attr.name)
      chunk == Slice(Entries(result), from, from + BATCH_SIZE)
  IN [j \in DOMAIN chunk |->
        PostingItem(item, attr, chunk[j][1], chunk[j][2], ResultLength(result))]

\* the keys of a sequence of items
KeySet(items) == { items[j] : j \in DOMAIN items }

\* the pages the store may cut from the keys that follow the
\* exclusiveStartKey: all of them, or between one and MaxPageItems of them
PagesOf(following) ==
  { following } \cup { page \in SUBSET following :
                         page # following /\ Cardinality(page) \in 1..MaxPageItems }

\* the answers the store may give to the Query on keys-index the invocation
\* issues next: Items and LastEvaluatedKey.  The keys that follow the
\* exclusiveStartKey are those the last answer left behind and any of those
\* that entered the index since; the first Query has no exclusiveStartKey and
\* every key follows.  A page that leaves keys behind comes with a
\* LastEvaluatedKey; a page that holds every key that follows comes with or
\* without one (the store sets it when the cut falls on the last key); a page
\* without items comes without one.
QueryAnswers(tbl, l) ==
  LET matching == KeySet(QueryKeysIndex(tbl, getEncodedKeys(KeysOf(l))))
      entered == matching \ (l.ahead \cup l.skipped \cup KeySet(l.items))
      visible == IF l.items = << >> THEN { entered } ELSE SUBSET entered
  IN UNION {
       { [Items |-> SetToSeq(cut[1]),
          LastEvaluatedKey |-> cut[2],
          ahead |-> ((matching \cap l.ahead) \cup v) \ cut[1],
          skipped |-> l.skipped \cup (entered \ v)] :
           cut \in { c \in PagesOf((matching \cap l.ahead) \cup v) \X BOOLEAN :
                       /\ c[1] # ((matching \cap l.ahead) \cup v) => c[2]
                       /\ c[2] => c[1] # {} } } :
       v \in visible }

\* the answer that holds every key of the document in one page
FullAnswer(tbl, l) ==
  LET matching == QueryKeysIndex(tbl, getEncodedKeys(KeysOf(l)))
      entered == KeySet(matching) \ (l.ahead \cup l.skipped \cup KeySet(l.items))
      following == (KeySet(matching) \cap l.ahead) \cup entered
  IN [Items |-> SelectSeq(matching, LAMBDA x : x \in following),
      LastEvaluatedKey |-> FALSE, ahead |-> {}, skipped |-> l.skipped]

\* deleteTokens after one answer of the Query: items.push(...Items), and the
\* next Query while the answer holds a LastEvaluatedKey; after the last
\* answer the occurrence loop over all the items found.  The items found are
\* listed in the order of SetToSeq, which stands for the order of keys-index.
StepQuery(l, answer) ==
  LET items == SetToSeq(KeySet(l.items) \cup KeySet(answer.Items))
      rm == SubtractOccurrences(l.resultMap, items)
  IN IF answer.LastEvaluatedKey
     THEN [l EXCEPT !.items = items, !.ahead = answer.ahead,
                    !.skipped = answer.skipped]
     ELSE IF items = << >>
     THEN Settle([l EXCEPT !.resultMap = rm, !.ahead = {}, !.skipped = {},
                           !.deleted = 0, !.pc = "afterDel"])
     ELSE [l EXCEPT !.resultMap = rm, !.items = items, !.ahead = {},
                    !.skipped = {}, !.di = 0, !.deleted = 0, !.pc = "del"]

\* one store call of the invocation and the local code up to the next one; a
\* Query on keys-index is answered in one page
StepCall(tbl, record, l) ==
  CASE l.pc = "query" ->
         [table |-> tbl, meta |-> record, l |-> StepQuery(l, FullAnswer(tbl, l))]
    [] l.pc = "del" ->
         LET deleted == DeletedAfterBatch(l.deleted, l.items)
             di == l.di + BATCH_SIZE
         IN [table |-> DeleteItems(tbl, Slice(l.items, l.di, l.di + BATCH_SIZE)),
             meta |-> record,
             l |-> IF di < Len(l.items)
                   THEN [l EXCEPT !.di = di, !.deleted = deleted]
                   ELSE Settle([l EXCEPT !.deleted = deleted, !.items = << >>,
                                         !.di = 0, !.pc = "afterDel"])]
    [] l.pc = "ins" ->
         LET item == NewImageOf(l)
             attr == attributes[l.ai]
             entries == Entries(AnalyzeAttribute(item, attr.name))
             ej == l.ej + BATCH_SIZE
         IN [table |-> PutItems(tbl, PutRequests(item, attr, l.ej)),
             meta |-> record,
             l |-> IF ej < Len(entries)
                   THEN [l EXCEPT !.ej = ej]
                   ELSE Settle([l EXCEPT !.inserted = @ + Len(entries), !.ej = 0,
                                         !.ai = @ + 1, !.pc = "attr"])]
    [] l.pc = "meta" ->
         [table |-> tbl,
          meta |-> updateMetadata(record, l.count, l.resultMap),
          l |-> [l EXCEPT !.pc = "done"]]

Running(l) == l.pc \in {"query", "del", "ins", "meta"}

\* the invocation run to its return without a failure and without any other
\* invocation in between
RECURSIVE RunToEnd(_, _, _)
RunToEnd(tbl, record, l) ==
  IF ~Running(l) THEN [table |-> tbl, meta |-> record, l |-> l]
  ELSE LET r == StepCall(tbl, record, l) IN RunToEnd(r.table, r.meta, r.l)


\* ------------------------------------------------------------------------
\* State
\* ------------------------------------------------------------------------
Workers == {1, 2}

VARIABLES
  table,        \* the items of the index table other than the metadata record
  meta,         \* the metadata record (EmptyMap while it does not exist)
  inv,          \* inv[w]: the invocation worker w runs, or ran last
  events,       \* history: number of records handed to the indexer so far
  docs,         \* history: the source table, as its change stream describes it
  lifecycleOK,  \* history: every fresh record was a legal transition of its document
  aborted,      \* history: some invocation was rejected
  redelivered,  \* history: some batch was handed over again
  sentCount,    \* history: sum of the count arguments of all updateMetadata calls
  sentTokens    \* history: sum of the resultMap arguments of all updateMetadata calls

vars == << table, meta, inv, events, docs, lifecycleOK, aborted, redelivered,
           sentCount, sentTokens >>

store == << table, meta >>
history == << events, docs, lifecycleOK, aborted, redelivered, sentCount, sentTokens >>

Init ==
  /\ table = {}
  /\ meta = EmptyMap
  /\ inv = [w \in Workers |-> IdleCall]
  /\ events = 0
  /\ docs = [id \in DocumentIds |-> [present |-> FALSE, content |-> ContentNone]]
  /\ lifecycleOK = TRUE
  /\ aborted = FALSE
  /\ redelivered = FALSE
  /\ sentCount = 0
  /\ sentTokens = EmptyMap

\* the attributes of a row image other than its key
ContentOf(item) == [x \in DOMAIN item \ {"Id"} |-> item[x]]

\* the per-document state machine absent -INSERT-> indexed -MODIFY-> indexed
\* -REMOVE-> absent, followed by the source table
LegalRecord(d, record) ==
  IF record.eventName = "INSERT" THEN ~d[record.Keys.Id.value].present
  ELSE d[record.Keys.Id.value].present

DocsAfterRecord(d, record) ==
  [d EXCEPT ![record.Keys.Id.value] =
     IF record.eventName = "REMOVE"
     THEN [present |-> FALSE, content |-> ContentNone]
     ELSE [present |-> TRUE, content |-> ContentOf(record.NewImage)]]

RECURSIVE DocsAfter(_, _)
DocsAfter(d, records) ==
  IF records = << >> THEN d
  ELSE DocsAfter(DocsAfterRecord(d, Head(records)), Tail(records))

RECURSIVE LegalBatch(_, _)
LegalBatch(d, records) ==
  IF records = << >> THEN TRUE
  ELSE /\ LegalRecord(d, Head(records))
       /\ LegalBatch(DocsAfterRecord(d, Head(records)), Tail(records))

Batches == { b \in SeqsUpTo(Records, MaxBatchLen) : b # << >> }

\* a set of batches listed by length
ByLength(batches) == [n \in 1..MaxBatchLen |-> { b \in batches : Len(b) = n }]

BatchesByLength == ByLength(Batches)

\* ------------------------------------------------------------------------
\* Actions
\* ------------------------------------------------------------------------
\* a change-stream batch is handed to processRecords for the first time
ProcessRecords(w, records) ==
  /\ ~Running(inv[w])
  /\ events + Len(records) <= MaxEvents
  /\ inv' = [inv EXCEPT ![w] =
               NewCall("processRecords", records, "fresh", table, meta, docs,
                       table, meta)]
  /\ events' = events + Len(records)
  /\ docs' = DocsAfter(docs, records)
  /\ lifecycleOK' = (lifecycleOK /\ LegalBatch(docs, records))
  /\ UNCHANGED << store, aborted, redelivered, sentCount, sentTokens >>

\* the batch processed last is handed to processRecords again, in full:
\* a retry when the last call was rejected, a second delivery when it returned
Redeliver(w) ==
  /\ inv[w].pc \in {"done", "failed"}
  /\ inv[w].op = "processRecords"
  /\ events + Len(inv[w].records) <= MaxEvents
  /\ inv' = [inv EXCEPT ![w] =
               IF inv[w].pc = "failed"
               THEN NewCall("processRecords", inv[w].records, "retry",
                            table, meta, inv[w].preDocs,
                            inv[w].firstTable, inv[w].firstMeta)
               ELSE NewCall("processRecords", inv[w].records, "redelivery",
                            table, meta, inv[w].preDocs, table, meta)]
  /\ events' = events + Len(inv[w].records)
  /\ redelivered' = TRUE
  /\ UNCHANGED << store, docs, lifecycleOK, aborted, sentCount, sentTokens >>

\* deleteTokens: one Query on keys-index, answered with a page of the
\* document's keys; the occurrence loop follows the last page
DeleteQuery(w) ==
  /\ inv[w].pc = "query"
  /\ \E answer \in QueryAnswers(table, inv[w]) :
       inv' = [inv EXCEPT ![w] = StepQuery(inv[w], answer)]
  /\ UNCHANGED << store, history >>

\* deleteTokens: one BatchWriteItem of DeleteRequests
DeleteBatch(w) ==
  /\ inv[w].pc = "del"
  /\ LET r == StepCall(table, meta, inv[w])
     IN /\ table' = r.table
        /\ meta' = r.meta
        /\ inv' = [inv EXCEPT ![w] = r.l]
  /\ UNCHANGED history

\* insertTokens: one BatchWriteItem of PutRequests
InsertBatch(w) ==
  /\ inv[w].pc = "ins"
  /\ LET r == StepCall(table, meta, inv[w])
     IN /\ table' = r.table
        /\ meta' = r.meta
        /\ inv' = [inv EXCEPT ![w] = r.l]
  /\ UNCHANGED history

\* updateMetadata: the UpdateItem, after which the invocation returns
UpdateMetadata(w) ==
  /\ inv[w].pc = "meta"
  /\ LET r == StepCall(table, meta, inv[w])
     IN /\ table' = r.table
        /\ meta' = r.meta
        /\ inv' = [inv EXCEPT ![w] = r.l]
  /\ sentCount' = sentCount + inv[w].count
  /\ sentTokens' = [a \in DOMAIN sentTokens \cup DOMAIN inv[w].resultMap |->
                      GetOr0(sentTokens, a) + GetOr0(inv[w].resultMap, a)]
  /\ UNCHANGED << events, docs, lifecycleOK, aborted, redelivered >>

\* a rejection handled like a finally block: the metadata update is still
\* issued with the counts gathered so far
Fail_StillUpdatesMetadata(w) ==
  /\ Running(inv[w])
  /\ inv' = [inv EXCEPT ![w] =
               [IdleCall EXCEPT !.pc = "failed", !.op = inv[w].op,
                                !.records = inv[w].records, !.mode = inv[w].mode,
                                !.preTable = inv[w].preTable,
                                !.preMeta = inv[w].preMeta,
                                !.preDocs = inv[w].preDocs,
                                !.firstTable = inv[w].firstTable,
                                !.firstMeta = inv[w].firstMeta]]
  /\ aborted' = TRUE
  /\ meta' = updateMetadata(meta, inv[w].count, inv[w].resultMap)
  /\ UNCHANGED << table, events, docs, lifecycleOK, redelivered, sentCount, sentTokens >>

\* the store call the invocation issues next throws: nothing is written, the
\* error propagates out of processRecords / reindex and the locals are lost
Fail(w) ==
  /\ Running(inv[w])
  /\ inv' = [inv EXCEPT ![w] =
               [IdleCall EXCEPT !.pc = "failed", !.op = inv[w].op,
                                !.records = inv[w].records, !.mode = inv[w].mode,
                                !.preTable = inv[w].preTable,
                                !.preMeta = inv[w].preMeta,
                                !.preDocs = inv[w].preDocs,
                                !.firstTable = inv[w].firstTable,
                                !.firstMeta = inv[w].firstMeta]]
  /\ aborted' = TRUE
  /\ UNCHANGED << store, events, docs, lifecycleOK, redelivered, sentCount, sentTokens >>

\* a shard worker hands a batch of its shard to processRecords while other
\* workers may be running (of the history fields only preMeta is recorded)
ProcessShard(w, records) ==
  /\ ~Running(inv[w])
  /\ events + Len(records) <= MaxEvents
  /\ inv' = [inv EXCEPT ![w] =
               NewCall("processRecords", records, "fresh", {}, meta, << >>,
                       {}, EmptyMap)]
  /\ events' = events + Len(records)
  /\ docs' = DocsAfter(docs, records)
  /\ lifecycleOK' = (lifecycleOK /\ LegalBatch(docs, records))
  /\ UNCHANGED << store, aborted, redelivered, sentCount, sentTokens >>

\* reindex(items) is called with rows read from the source table while other
\* workers may be running (of the history fields only preMeta is recorded)
Reindex(w, items) ==
  /\ ~Running(inv[w])
  /\ events + Len(items) <= MaxEvents
  /\ inv' = [inv EXCEPT ![w] =
               NewCall("reindex", items, "fresh", {}, meta, << >>, {}, EmptyMap)]
  /\ events' = events + Len(items)
  /\ docs' = [id \in DocumentIds |->
               IF \E j \in DOMAIN items : items[j].Id.value = id
               THEN [present |-> TRUE,
                     content |-> ContentOf(items[
                       CHOOSE j \in DOMAIN items :
                         /\ items[j].Id.value = id
                         /\ \A k \in DOMAIN items :
                              items[k].Id.value = id => k <= j])]
               ELSE docs[id]]
  /\ UNCHANGED << store, lifecycleOK, aborted, redelivered, sentCount, sentTokens >>

\* the batches a worker can be handed: those that fit in the events left,
\* none while the worker runs a call
Fitting(byLength, w) ==
  IF Running(inv[w]) THEN {}
  ELSE UNION { byLength[n] : n \in 1..Min(MaxBatchLen, MaxEvents - events) }

\* one indexer, one call at a time
Next ==
  \/ \E records \in Fitting(BatchesByLength, 1) : ProcessRecords(1, records)
  \/ Redeliver(1)
  \/ DeleteQuery(1)
  \/ DeleteBatch(1)
  \/ InsertBatch(1)
  \/ UpdateMetadata(1)
  \/ Fail(1)

Spec == Init /\ [][Next]_vars

\* two indexers working on disjoint sets of documents (two shards of the
\* change stream, or two reindex batches run under Promise.all)
ShardOf(w) == IF w = 1 THEN { << "1", "0", "1" >> } ELSE { << "1", "0", "2" >> }

ShardBatches(w) ==
  { b \in Batches : \A j \in DOMAIN b : b[j].Keys.Id.value \in ShardOf(w) }

ShardItems(w) ==
  { b \in SeqsUpTo({ it \in Items : it.Id.value \in ShardOf(w) }, MaxBatchLen) :
      b # << >> }

ShardBatchesByLength == [w \in Workers |-> ByLength(ShardBatches(w))]

ShardItemsByLength == [w \in Workers |-> ByLength(ShardItems(w))]

NextConcurrent ==
  \E w \in Workers :
    \/ \E records \in Fitting(ShardBatchesByLength[w], w) : ProcessShard(w, records)
    \/ \E items \in Fitting(ShardItemsByLength[w], w) : Reindex(w, items)
    \/ DeleteQuery(w)
    \/ DeleteBatch(w)
    \/ InsertBatch(w)
    \/ UpdateMetadata(w)

SpecConcurrent == Init /\ [][NextConcurrent]_vars


\* ------------------------------------------------------------------------
\* Vocabulary of the properties
\* ------------------------------------------------------------------------
\* the encoded key of a document whose key value holds no delimiter and no
\* escape character: the type tag followed by the value
EncodedId(id) == << "N" >> \o id

PostingsOf(tbl, id) == { x \in tbl : x.k = EncodedId(id) }

DocumentCount(record) == GetOr0(record, "dc")

TokenCount(record, attributeName) ==
  GetOr0(record, "tc:" \o (IF attributeName = "Title" THEN "t" ELSE attributeName))

\* the same counters in both records (a missing counter reads as 0)
SameCounters(r1, r2) ==
  /\ DocumentCount(r1) = DocumentCount(r2)
  /\ \A a \in AttributeNames : TokenCount(r1, a) = TokenCount(r2, a)

\* the analyzed value of an attribute of a content
Analyzed(content, a) == IF a \in DOMAIN content THEN analyze(content[a]) ELSE << >>

TokensIn(content, a) ==
  { Analyzed(content, a)[r].text : r \in DOMAIN Analyzed(content, a) }

\* how often token t occurs in the analyzed value
Occurrences(content, a, t) ==
  SumSeq([r \in DOMAIN Analyzed(content, a) |->
            IF Analyzed(content, a)[r].text = t THEN Analyzed(content, a)[r].n ELSE 0])

\* the number of tokens of the analyzed value
TokenTotal(content, a) ==
  SumSeq([r \in DOMAIN Analyzed(content, a) |-> Analyzed(content, a)[r].n])

HasTokens(content) == \E a \in AttributeNames : TokensIn(content, a) # {}

\* the last call of the indexer returned, and no call ever failed
Completed == inv[1].pc = "done" /\ ~aborted

\* the index is at rest after calls that all returned
AtRest == inv[1].pc \in {"idle", "done"} /\ ~aborted

\* the last call was a first delivery of a batch of exactly one record
SingleRecord(eventName) ==
  /\ inv[1].op = "processRecords"
  /\ Len(inv[1].records) = 1
  /\ inv[1].records[1].eventName = eventName

IdOfRecord(record) == record.Keys.Id.value

\* ------------------------------------------------------------------------
\* C1: after calls that all returned, over events that follow the document
\* lifecycle and are delivered once, with every document removed at the end,
\* documentCount is 0, every tokenCount is 0 and no posting remains.
\* The code violates it: deleteTokens subtracts the stored (capped)
\* occurrence.
\* ------------------------------------------------------------------------
C1_AllRemovedAllZero ==
  (AtRest /\ lifecycleOK /\ ~redelivered /\ \A id \in DocumentIds : ~docs[id].present)
    => /\ table = {}
       /\ DocumentCount(meta) = 0
       /\ \A a \in AttributeNames : TokenCount(meta, a) = 0

\* ------------------------------------------------------------------------
\* C2: a call rejected after a prefix of its store writes and then repeated
\* with the same batch until it returns leaves the postings and the counters
\* that one failure-free call leaves from the same starting state.
\* The code violates it: the repeated call no longer finds what the
\* rejected call deleted, and counts again what it inserted.
\* ------------------------------------------------------------------------
C2_RetryEqualsFailureFree ==
  (inv[1].pc = "done" /\ inv[1].mode = "retry")
    => LET clean == RunToEnd(inv[1].firstTable, inv[1].firstMeta,
                             NewCall("processRecords", inv[1].records, "fresh",
                                     inv[1].firstTable, inv[1].firstMeta,
                                     inv[1].preDocs,
                                     inv[1].firstTable, inv[1].firstMeta))
       IN table = clean.table /\ SameCounters(meta, clean.meta)

\* ------------------------------------------------------------------------
\* C3: an INSERT event delivered a second time, both deliveries processed to
\* completion, leaves documentCount and every tokenCount as they were after
\* the first delivery.
\* The code violates it: insertTokens counts the document and its tokens
\* again.
\* ------------------------------------------------------------------------
C3_InsertTwiceSameCounters ==
  (Completed /\ inv[1].mode = "redelivery" /\ SingleRecord("INSERT"))
    => SameCounters(meta, inv[1].preMeta)

\* ------------------------------------------------------------------------
\* C4: applying the same INSERT event twice leaves exactly the postings that
\* applying it once leaves.
\* ------------------------------------------------------------------------
C4_InsertTwiceSamePostings ==
  (Completed /\ inv[1].mode = "redelivery" /\ SingleRecord("INSERT"))
    => table = inv[1].preTable

C4_Witness ==
  /\ Completed /\ inv[1].mode = "redelivery" /\ SingleRecord("INSERT")
  /\ Cardinality(PostingsOf(table, IdOfRecord(inv[1].records[1]))) >= 3

\* ------------------------------------------------------------------------
\* C5: a MODIFY event whose new image equals the indexed content leaves
\* documentCount, every tokenCount and the postings unchanged.
\* The code violates it for a document with a token that occurs more than
\* 65535 times.
\* ------------------------------------------------------------------------
C5_UnchangedModifyNoDelta ==
  (/\ Completed /\ inv[1].mode = "fresh" /\ lifecycleOK /\ ~redelivered
   /\ SingleRecord("MODIFY")
   /\ inv[1].preDocs[IdOfRecord(inv[1].records[1])].content
        = ContentOf(inv[1].records[1].NewImage))
    => /\ SameCounters(meta, inv[1].preMeta)
       /\ table = inv[1].preTable


\* ------------------------------------------------------------------------
\* C6: with concurrent invocations of processRecords and reindex on disjoint
\* documents, under every interleaving of their store calls, documentCount
\* and every tokenCount equal the initial values (0) plus the sum of the
\* deltas the invocations handed to updateMetadata: no update is lost.
\* ------------------------------------------------------------------------
C6_CountersAreSumOfDeltas ==
  /\ DocumentCount(meta) = sentCount
  /\ \A a \in AttributeNames : TokenCount(meta, a) = GetOr0(sentTokens, a)

\* the second indexer started before the first one updated the metadata
\* record and updates it after
C6_Witness ==
  /\ inv[1].pc = "done" /\ inv[1].count = 1
  /\ inv[2].pc = "done" /\ inv[2].count = 1 /\ inv[2].preMeta = EmptyMap
  /\ inv[2].op = "reindex"
  /\ DocumentCount(meta) = 2
  /\ TokenCount(meta, "Message") > MaxUInt16


\* the name an attribute's postings and counter are stored under
StoredAs(a) == IF a = "Title" THEN "t" ELSE a

\* the postings of document id are exactly one posting per attribute and
\* distinct token of the content
ExactlyThePostingsOf(tbl, id, content) ==
  /\ \A a \in AttributeNames : \A t \in TokensIn(content, a) :
       Cardinality({ x \in PostingsOf(tbl, id) : x.p = << StoredAs(a), t >> }) = 1
  /\ \A x \in PostingsOf(tbl, id) :
       \E a \in AttributeNames : x.p[1] = StoredAs(a) /\ x.p[2] \in TokensIn(content, a)

\* ------------------------------------------------------------------------
\* C7: after a MODIFY event for an indexed document the document's postings
\* are exactly those of the new image, each tokenCount has changed by
\* (new token total - old token total) and documentCount is unchanged.
\* Stated for new images that hold a token.  The code violates it when the
\* old image holds a token more than 65535 times.
\* ------------------------------------------------------------------------
C7_ModifyReplacesPostings ==
  LET id == IdOfRecord(inv[1].records[1])
      new == ContentOf(inv[1].records[1].NewImage)
      old == inv[1].preDocs[id].content
  IN (/\ Completed /\ inv[1].mode = "fresh" /\ lifecycleOK /\ ~redelivered
      /\ SingleRecord("MODIFY")
      /\ PostingsOf(inv[1].preTable, id) # {}
      /\ HasTokens(new))
       => /\ ExactlyThePostingsOf(table, id, new)
          /\ \A a \in AttributeNames :
               TokenCount(meta, a) - TokenCount(inv[1].preMeta, a)
                 = TokenTotal(new, a) - TokenTotal(old, a)
          /\ DocumentCount(meta) = DocumentCount(inv[1].preMeta)

\* ------------------------------------------------------------------------
\* C8: an INSERT event for a document without postings writes, for every
\* attribute, exactly one posting per distinct analyzed token, carrying the
\* token's number of occurrences, the attribute's token total and the
\* document's encoded key; documentCount rises by 1 when a posting was
\* written and each tokenCount rises by the attribute's token total.
\* InsertWrites(capped) states it with the occurrence as counted, or with the
\* occurrence limited to 65535.
\* ------------------------------------------------------------------------
InsertWrites(capped) ==
  LET id == IdOfRecord(inv[1].records[1])
      c == ContentOf(inv[1].records[1].NewImage)
  IN (/\ inv[1].pc = "done" /\ inv[1].mode = "fresh"
      /\ SingleRecord("INSERT")
      /\ PostingsOf(inv[1].preTable, id) = {})
       => /\ ExactlyThePostingsOf(table, id, c)
          /\ \A x \in PostingsOf(table, id) : \A a \in AttributeNames :
               x.p[1] = StoredAs(a)
                 => /\ x.s.occ = IF capped
                                  THEN Min(MaxUInt16, Occurrences(c, a, x.p[2]))
                                  ELSE Occurrences(c, a, x.p[2])
                    /\ x.s.len = TokenTotal(c, a)
          /\ DocumentCount(meta)
               = DocumentCount(inv[1].preMeta) + (IF HasTokens(c) THEN 1 ELSE 0)
          /\ \A a \in AttributeNames :
               TokenCount(meta, a) = TokenCount(inv[1].preMeta, a) + TokenTotal(c, a)

\* C8 as claimed: the stored occurrence is the number of occurrences
C8_InsertWritesOccurrences == InsertWrites(FALSE)

\* C8 amended: the stored occurrence is the number of occurrences, capped at
\* 65535
C8_InsertWritesCappedOccurrences == InsertWrites(TRUE)

\* a document with a token that occurs 65536 times was inserted
C8_Witness ==
  /\ inv[1].pc = "done" /\ inv[1].mode = "fresh" /\ SingleRecord("INSERT")
  /\ PostingsOf(inv[1].preTable, IdOfRecord(inv[1].records[1])) = {}
  /\ \E x \in PostingsOf(table, IdOfRecord(inv[1].records[1])) :
       /\ x.s.occ = MaxUInt16
       /\ Occurrences(ContentOf(inv[1].records[1].NewImage), "Message", x.p[2])
            = MaxUInt16 + 1
  /\ DocumentCount(meta) = 2

\* ------------------------------------------------------------------------
\* C9: after a call whose last event for a document is REMOVE, no posting
\* with that document's encoded key remains, and the metadata record exists.
\* ------------------------------------------------------------------------
LastRecordOf(records, id) ==
  records[CHOOSE j \in DOMAIN records :
            /\ IdOfRecord(records[j]) = id
            /\ \A k \in DOMAIN records : IdOfRecord(records[k]) = id => k <= j]

C9_RemoveLeavesNoPosting ==
  (inv[1].pc = "done" /\ inv[1].op = "processRecords")
    => /\ \A id \in DocumentIds :
            (/\ \E j \in DOMAIN inv[1].records : IdOfRecord(inv[1].records[j]) = id
             /\ LastRecordOf(inv[1].records, id).eventName = "REMOVE")
              => PostingsOf(table, id) = {}
       /\ "dc" \in DOMAIN meta

\* an indexed document was removed while the other document stays indexed
C9_Witness ==
  /\ inv[1].pc = "done" /\ SingleRecord("REMOVE")
  /\ Cardinality(PostingsOf(inv[1].preTable, IdOfRecord(inv[1].records[1]))) >= 3
  /\ PostingsOf(table, IdOfRecord(inv[1].records[1])) = {}
  /\ table # {}
  /\ "dc" \in DOMAIN meta

\* ------------------------------------------------------------------------
\* C10: after calls that all returned, each batch possibly delivered again in
\* full before the next one, the index holds at most one posting for each
\* (attribute, token, document) triple.
\* ------------------------------------------------------------------------
AtMostOnePostingPerTriple ==
  \A x \in table : \A y \in table : (x.p = y.p /\ x.k = y.k) => x = y

\* C10 as claimed: for any sequence of calls
C10_OnePostingPerTriple == AtRest => AtMostOnePostingPerTriple

\* C10 amended: for calls whose first-delivered events follow the document
\* lifecycle absent -INSERT-> indexed -MODIFY-> indexed -REMOVE-> absent
C10_OnePostingPerTripleInLifecycle ==
  (AtRest /\ lifecycleOK) => AtMostOnePostingPerTriple

\* an INSERT was delivered twice and the document was modified afterwards
C10_Witness ==
  /\ AtRest /\ lifecycleOK /\ redelivered
  /\ inv[1].pc = "done" /\ inv[1].mode = "fresh" /\ SingleRecord("MODIFY")
  /\ Cardinality(PostingsOf(table, IdOfRecord(inv[1].records[1]))) >= 2
  /\ Cardinality(PostingsOf(inv[1].preTable, IdOfRecord(inv[1].records[1]))) >= 3

\* the sum of the occurrence fields of a set of postings
RECURSIVE SumOccurrence(_)
SumOccurrence(postings) ==
  IF postings = {} THEN 0
  ELSE LET x == CHOOSE y \in postings : TRUE
       IN x.s.occ + SumOccurrence(postings \ {x})

\* ------------------------------------------------------------------------
\* C11: for every indexed document and attribute, the occurrence values
\* stored on the document's postings for the attribute sum to the
\* documentTokenCount stored on each of those postings, whatever the
\* multiplicity of a token.
\* The code violates it for a token that occurs more than 65535 times: the
\* occurrence is stored capped, the documentTokenCount is not.
\* ------------------------------------------------------------------------
C11_OccurrencesSumToTokenCount ==
  (AtRest /\ lifecycleOK)
    => \A id \in DocumentIds : \A a \in AttributeNames :
         LET postings == { x \in PostingsOf(table, id) : x.p[1] = StoredAs(a) }
         IN \A x \in postings : SumOccurrence(postings) = x.s.len

\* ------------------------------------------------------------------------
\* The key codec on its own: encodeKeys applied to a list of key parts,
\* decodeKeys applied to the result.  The call is held in inv[1]:
\*   keys (the argument), str (the encoded string), decoded (what decodeKeys
\*   returned), pc "parts" -> "encoded" -> "decoded".
\* ------------------------------------------------------------------------
\* the scanning loop of decodeKeys; i is the 0-based index into str
RECURSIVE DecodeScan(_, _, _, _)
DecodeScan(str, i, current, keys) ==
  IF ~(i < Len(str)) THEN Append(keys, current)
  ELSE LET char == str[i + 1]
       IN IF char = Escape /\ i < Len(str) - 1
          THEN DecodeScan(str, i + 2, Append(current, str[i + 2]), keys)
          ELSE IF char = Delimiter
          THEN DecodeScan(str, i + 1, << >>, Append(keys, current))
          ELSE DecodeScan(str, i + 1, Append(current, char), keys)

\* keys.map(key => ({ [key.slice(0, 1)]: key.slice(1) }))
decodeKeys(str) ==
  LET keys == DecodeScan(str, 0, << >>, << >>)
  IN [j \in DOMAIN keys |->
        IF keys[j] = << >> THEN [tag |-> "", value |-> << >>]
        ELSE [tag |-> Head(keys[j]), value |-> Tail(keys[j])]]

\* the characters of a key value: an ordinary one, the delimiter, the escape
KeyChars == { "a", Delimiter, Escape }

\* the type tags of a key attribute with a string value
KeyTags == { "S", "N" }

KeyParts == { [tag |-> t, value |-> v] : t \in KeyTags, v \in SeqsUpTo(KeyChars, MaxValueLen) }

\* a partition key, or a partition key and a sort key
KeyLists == { << p >> : p \in KeyParts } \cup { << p, q >> : p \in KeyParts, q \in KeyParts }

CodecCall(keys) ==
  [op |-> "codec", pc |-> "parts", keys |-> keys, str |-> << >>, decoded |-> << >>]

InitCodec ==
  /\ table = {}
  /\ meta = EmptyMap
  /\ \E keys \in KeyLists : inv = [w \in Workers |-> IF w = 1 THEN CodecCall(keys) ELSE IdleCall]
  /\ events = 0
  /\ docs = [id \in DocumentIds |-> [present |-> FALSE, content |-> ContentNone]]
  /\ lifecycleOK = TRUE
  /\ aborted = FALSE
  /\ redelivered = FALSE
  /\ sentCount = 0
  /\ sentTokens = EmptyMap

EncodeKeys ==
  /\ inv[1].pc = "parts"
  /\ inv' = [inv EXCEPT ![1].str = encodeKeys(inv[1].keys), ![1].pc = "encoded"]
  /\ UNCHANGED << store, history >>

DecodeKeys ==
  /\ inv[1].pc = "encoded"
  /\ inv' = [inv EXCEPT ![1].decoded = decodeKeys(inv[1].str), ![1].pc = "decoded"]
  /\ UNCHANGED << store, history >>

NextCodec == EncodeKeys \/ DecodeKeys

SpecCodec == InitCodec /\ [][NextCodec]_vars

\* ------------------------------------------------------------------------
\* C12: for every list of one or two key parts, each a type tag with a
\* string value over any characters (the delimiter and the escape character
\* included, at any position), decodeKeys(encodeKeys(parts)) is the same
\* list of parts.
\* ------------------------------------------------------------------------
C12_DecodeInvertsEncode ==
  inv[1].pc = "decoded" => inv[1].decoded = inv[1].keys

\* two parts, the first value ending in the escape character, the second
\* holding the delimiter
C12_Witness ==
  /\ inv[1].pc = "decoded"
  /\ Len(inv[1].keys) = 2
  /\ inv[1].keys[1].value = << "a", Escape >>
  /\ inv[1].keys[2].value = << Delimiter, Escape >>
  /\ inv[1].str = << "S", "a", Escape, Escape, Delimiter,
                     "N", Escape, Delimiter, Escape, Escape >>
  /\ inv[1].decoded = inv[1].keys

\* ------------------------------------------------------------------------
\* Indexing with an analyzer that throws: the batches hold documents with a
\* value on which the analyzer of the first or of the second attribute
\* throws.
\* ------------------------------------------------------------------------
ContentThrowsTitle ==
  [Title |-> << [w |-> ThrowingWord, n |-> 1] >>,
   Message |-> << [w |-> "New", n |-> 1] >>]
ContentThrowsMessage ==
  [Title |-> << [w |-> "New", n |-> 1] >>,
   Message |-> << [w |-> "Item!", n |-> 1], [w |-> ThrowingWord, n |-> 1] >>]

ThrowingItems ==
  { ItemOf(<< "1", "0", "1" >>, c) :
      c \in { ContentSmall, ContentThrowsTitle, ContentThrowsMessage } }
  \cup { ItemOf(<< "1", "0", "2" >>, ContentSmall) }

ThrowingRecords ==
  { [eventName |-> e, Keys |-> [Id |-> it.Id], NewImage |-> it] :
      e \in {"INSERT", "MODIFY"}, it \in ThrowingItems }
  \cup { [eventName |-> "REMOVE", Keys |-> [Id |-> KeyOf(id)]] : id \in DocumentIds }

ThrowingBatches == { b \in SeqsUpTo(ThrowingRecords, MaxBatchLen) : b # << >> }

ThrowingBatchesByLength == ByLength(ThrowingBatches)

NextAnalysisError ==
  \/ \E records \in Fitting(ThrowingBatchesByLength, 1) : ProcessRecords(1, records)
  \/ DeleteQuery(1)
  \/ DeleteBatch(1)
  \/ InsertBatch(1)
  \/ UpdateMetadata(1)

SpecAnalysisError == Init /\ [][NextAnalysisError]_vars

\* the postings insertTokens builds from an image, for the attributes whose
\* analysis returns
NewImagePostings(item) ==
  UNION { { PostingItem(item, attributes[i], Entries(AnalyzeAttribute(item, attributes[i].name))[j][1],
                        Entries(AnalyzeAttribute(item, attributes[i].name))[j][2],
                        ResultLength(AnalyzeAttribute(item, attributes[i].name))) :
              j \in DOMAIN Entries(AnalyzeAttribute(item, attributes[i].name)) } :
          i \in { k \in DOMAIN attributes :
                    ~AnalyzeAttributeThrows(item, attributes[k].name) } }

\* ------------------------------------------------------------------------
\* C13: when the analyzer throws while processRecords indexes the new image
\* of an INSERT or MODIFY event (events following the document lifecycle, so
\* that the document has no posting when insertTokens starts), processRecords
\* rejects and no posting derived from that new image is in the index.
\* The code violates it: insertTokens writes the postings of an attribute
\* before it analyzes the next one.
\* ------------------------------------------------------------------------
C13_ThrowLeavesNoPosting ==
  (inv[1].pc = "threw" /\ lifecycleOK)
    => table \cap NewImagePostings(NewImageOf(inv[1])) = {}

\* ------------------------------------------------------------------------
\* C14: when a store call made during processRecords fails, processRecords
\* rejects: the failing call writes nothing, the rejected invocation issues
\* no further store call (the store changes neither in the step that rejects
\* nor in any step taken while the invocation is rejected) and the metadata
\* record is as it was when the call started.
\* ------------------------------------------------------------------------
C14_RejectedCallStops ==
  [][ /\ (inv[1].pc = "failed" \/ inv'[1].pc = "failed")
           => /\ table' = table /\ meta' = meta
              /\ sentCount' = sentCount /\ sentTokens' = sentTokens
      /\ inv'[1].pc = "failed" => meta' = inv'[1].preMeta ]_vars

\* a call over two events rejected after it wrote postings
C14_Witness ==
  /\ inv[1].pc = "failed" /\ inv[1].op = "processRecords"
  /\ Len(inv[1].records) = 2
  /\ table # inv[1].preTable
  /\ meta = inv[1].preMeta
  /\ \E id \in DocumentIds : docs[id].present /\ PostingsOf(table, id) = {}

\* ------------------------------------------------------------------------
\* search: the store reads
\* ------------------------------------------------------------------------
\* read capacity is counted in half units: an eventually consistent read of
\* up to 4 KB, what every Query page and the metadata record of the model
\* amount to, costs 0.5 capacity units
QueryCapacityUnits == 1
GetItemCapacityUnits == 1

\* the byte order of two sort keys: occurrence, then documentTokenCount, then
\* the digest bytes
SortKeyLess(s1, s2) ==
  \/ s1.occ < s2.occ
  \/ s1.occ = s2.occ /\ s1.len < s2.len
  \/ s1.occ = s2.occ /\ s1.len = s2.len /\ BytesLess(s1.hash, s2.hash)

\* the items of a partition in descending order of the sort key
\* (ScanIndexForward: false)
RECURSIVE Descending(_)
Descending(S) ==
  IF S = {} THEN << >>
  ELSE LET x == CHOOSE y \in S : \A z \in S \ {y} : SortKeyLess(z.s, y.s)
       IN << x >> \o Descending(S \ {x})

\* one Query (#pk = :pk, projection #sk, #keys) answered by the store: the
\* first page of the partition, pageItems being the number of postings that
\* fit in one page; LastEvaluatedKey is set when the partition holds more
Query(tbl, pk, pageItems) ==
  LET all == Descending({ x \in tbl : x.p = pk })
      page == SubSeq(all, 1, Min(pageItems, Len(all)))
  IN [Items |-> [j \in DOMAIN page |-> [s |-> page[j].s, k |-> page[j].k]],
      LastEvaluatedKey |-> Len(all) > Len(page),
      ConsumedCapacity |-> [CapacityUnits |-> QueryCapacityUnits]]

\* the names the token counters of the configured attributes are stored under
StorageNames == { StorageName(attributes[i]) : i \in DOMAIN attributes }

\* getMetadata: docCount and the Map tokenCount of the metadata record (an
\* absent record reads as docCount 0 and an empty Map)
getMetadata(record) ==
  [docCount |-> IF ATTR_META_DOCUMENT_COUNT \in DOMAIN record
                THEN record[ATTR_META_DOCUMENT_COUNT] ELSE 0,
   tokenCount |->
     [attributeName \in { AttributeNameOf(shortName) :
                            shortName \in { sn \in StorageNames :
                                              TokenCountName(sn) \in DOMAIN record } }
        |-> record[TokenCountName(ShortNameOf(attributeName))]]]

\* ------------------------------------------------------------------------
\* search: BM25 in fixed-point arithmetic.  A score is [nan, inf, v]: nan
\* marks NaN; inf is 1 for Infinity, -1 for -Infinity and 0 for a finite
\* number, of which v counts the units of 1 / ScoreScale.
\* ------------------------------------------------------------------------
ScoreScale == 10000

NaN == [nan |-> TRUE, inf |-> 0, v |-> 0]

Finite(v) == [nan |-> FALSE, inf |-> 0, v |-> v]

\* Infinity (sign 1) and -Infinity (sign -1)
Infinity(sign) == [nan |-> FALSE, inf |-> sign, v |-> 0]

\* a + b: NaN when either is NaN, and for Infinity + -Infinity
AddScore(a, b) ==
  IF a.nan \/ b.nan \/ a.inf * b.inf < 0 THEN NaN
  ELSE IF a.inf # 0 THEN a
  ELSE IF b.inf # 0 THEN b
  ELSE Finite(a.v + b.v)

\* score >= minScore, minScore a finite number
AtLeast(score, minScore) ==
  ~score.nan /\ (score.inf > 0 \/ (score.inf = 0 /\ score.v >= minScore))

\* a > b
Above(a, b) ==
  /\ ~a.nan /\ ~b.nan
  /\ a.inf > b.inf \/ (a.inf = 0 /\ b.inf = 0 /\ a.v > b.v)

\* a >= b
NotBelow(a, b) == ~a.nan /\ ~b.nan /\ ~Above(b, a)

\* Math.log(p / q) for p, q > 0, in units of 1 / ScoreScale: the series
\* 2 (z + z^3/3 + z^5/5 + z^7/7 + z^9/9) with z = (p - q) / (p + q)
LnScaled(p, q) ==
  LET z == (ScoreScale * (p - q)) \div (p + q)
      z2 == (z * z) \div ScoreScale
      z3 == (z * z2) \div ScoreScale
      z5 == (z3 * z2) \div ScoreScale
      z7 == (z5 * z2) \div ScoreScale
      z9 == (z7 * z2) \div ScoreScale
  IN 2 * (z + z3 \div 3 + z5 \div 5 + z7 \div 7 + z9 \div 9)

\* bm25: { k1 = 1.2, b = 0.75 }, as fractions
K1 == [num |-> 6, den |-> 5]
B == [num |-> 3, den |-> 4]

\* idf = Math.log(1 + (docCount - n + 0.5) / (n + 0.5)), n = Items.length:
\* the logarithm of (2 docCount + 2) / (2 n + 1), -Infinity for Math.log(0)
\* and NaN for the logarithm of a negative number
Idf(docCount, n) ==
  IF 2 * docCount + 2 > 0 THEN Finite(LnScaled(2 * docCount + 2, 2 * n + 1))
  ELSE IF 2 * docCount + 2 = 0 THEN Infinity(0 - 1)
  ELSE NaN

\* a term frequency that falls as the occurrence rises: the length term over
\* the sum
TfWith_Inverted(k1, b, occurrence, tokenCount, docCount, tokenCountMap, name) ==
  LET kb == k1.den * b.den
      k1NotB == k1.num * (b.den - b.num)
      k1B == k1.num * b.num
  IN IF name \notin DOMAIN tokenCountMap THEN [nan |-> TRUE, num |-> 0, den |-> 1]
     ELSE LET total == tokenCountMap[name]
          IN IF total <= 0 \/ docCount <= 0 THEN [nan |-> TRUE, num |-> 0, den |-> 1]
             ELSE [nan |-> FALSE,
                   num |-> kb * total + k1NotB * total + k1B * tokenCount * docCount,
                   den |-> kb * occurrence * total + k1NotB * total
                           + k1B * tokenCount * docCount]

\* tf = occurrence / (occurrence + k1 * (1 - b + b * (tokenCount / averageTokenCount)))
\* with averageTokenCount = tokenCountMap.get(name) / docCount, as the
\* fraction [num, den] with den >= 0; [nan |-> TRUE] when the quotient is not
\* a number, den = 0 when it is Infinity (num 1) or -Infinity (num -1).
\* k1 and b are the fractions [num, den] of the bm25 option.
\*   undefined / docCount and 0 / 0 are NaN;
\*   total / 0 is an infinite average, tokenCount / average is 0;
\*   0 / docCount is a zero average, tokenCount / average is infinite (NaN
\*   for tokenCount 0), b and k1 multiply it (0 * Infinity is NaN), and tf is
\*   occurrence over an infinite sum, 0;
\*   a sum of exactly 0 gives occurrence / 0.
TfWith(k1, b, occurrence, tokenCount, docCount, tokenCountMap, name) ==
  LET kb == k1.den * b.den
      \* k1 * (1 - b), over kb
      k1NotB == k1.num * (b.den - b.num)
      \* k1 * b, over kb
      k1B == k1.num * b.num
      notANumber == [nan |-> TRUE, num |-> 0, den |-> 1]
      \* occurrence / sum, both scaled by `scale`
      Quotient(scale, sum) ==
        IF sum = 0
        THEN IF occurrence = 0 THEN notANumber
             ELSE [nan |-> FALSE, num |-> IF occurrence > 0 THEN 1 ELSE 0 - 1, den |-> 0]
        ELSE IF sum < 0
        THEN [nan |-> FALSE, num |-> 0 - scale * occurrence, den |-> 0 - sum]
        ELSE [nan |-> FALSE, num |-> scale * occurrence, den |-> sum]
  IN IF name \notin DOMAIN tokenCountMap THEN notANumber
     ELSE LET total == tokenCountMap[name]
          IN IF total = 0 /\ docCount = 0 THEN notANumber
             ELSE IF docCount = 0
             THEN Quotient(kb, kb * occurrence + k1NotB)
             ELSE IF total = 0
             THEN IF tokenCount = 0 \/ b.num = 0 \/ k1.num = 0 THEN notANumber
                  ELSE [nan |-> FALSE, num |-> 0, den |-> 1]
             ELSE Quotient(kb * total,
                           kb * occurrence * total + k1NotB * total
                             + k1B * tokenCount * docCount)

\* tf under the default bm25 option
Tf(occurrence, tokenCount, docCount, tokenCountMap, name) ==
  TfWith(K1, B, occurrence, tokenCount, docCount, tokenCountMap, name)

\* score = (boost ?? 1) * tf * idf * (k1 + 1).  A NaN factor gives NaN.  With
\* an infinite tf or idf the product is NaN when another factor is 0 and
\* Infinity or -Infinity by the signs of the factors otherwise.  Of finite
\* factors the product tf * idf * (k1 + 1) is rounded to the unit of the
\* scores and the boost multiplies the rounded value: a floating-point
\* product keeps its relative precision, so that scaling a factor by a power
\* of two scales the rounded product alike.
PostingScoreWith(k1, b, boost, occurrence, tokenCount, n, docCount, tokenCountMap, name) ==
  LET tf == TfWith(k1, b, occurrence, tokenCount, docCount, tokenCountMap, name)
      idf == Idf(docCount, n)
      SignOf(x) == IF x > 0 THEN 1 ELSE IF x < 0 THEN 0 - 1 ELSE 0
      \* the sign of the logarithm of (2 docCount + 2) / (2 n + 1)
      idfSign == IF idf.inf # 0 THEN idf.inf
                 ELSE SignOf((2 * docCount + 2) - (2 * n + 1))
      sign == SignOf(boost) * SignOf(tf.num) * idfSign * SignOf(k1.num + k1.den)
  IN IF tf.nan \/ idf.nan THEN NaN
     ELSE IF tf.den = 0 \/ idf.inf # 0
     THEN IF sign = 0 THEN NaN ELSE Infinity(sign)
     ELSE Finite(boost * (((k1.num + k1.den) * tf.num * idf.v) \div (k1.den * tf.den)))

\* a scoring that ignores the boost of the attribute
PostingScore_NoBoost(boost, occurrence, tokenCount, n, docCount, tokenCountMap, name) ==
  PostingScoreWith(K1, B, 1, occurrence, tokenCount, n, docCount, tokenCountMap, name)

\* the score of a posting under the default bm25 option
PostingScore(boost, occurrence, tokenCount, n, docCount, tokenCountMap, name) ==
  PostingScoreWith(K1, B, boost, occurrence, tokenCount, n, docCount, tokenCountMap, name)

\* ------------------------------------------------------------------------
\* One invocation of search.  Its local state `l`:
\*   query, options (attributes, maxItems, minScore), attrs (_attributes),
\*   docCount, tokenCountMap, candidates (the Map, as the sequence of its
\*   entries [key, score] in insertion order), i and j (the loop indices, from
\*   1), consumedCapacity, items (the returned items).
\* pc names the store call issued next: "getMetadata" the GetItem, "lookup"
\* the Query of attribute i and word j; "returned", or "threw" for the
\* configuration error.
\* pageItems, reads, charged and lookups record what the store did: how many
\* postings fit in a page, the number of reads it served, the capacity it
\* charged for them, and per Query the key, the numbers of postings
\* returned and stored, the index i of the attribute and the score computed
\* for each returned posting; the program does not read them.
\* ------------------------------------------------------------------------
\* parseFloat of the text after '^'
ParseFloat(str) ==
  CASE str = "1" -> 1
    [] str = "2" -> 2
    [] str = "3" -> 3
    [] str = "4" -> 4
    [] str = "6" -> 6
    [] str = "-1" -> 0 - 1
    [] str = "-2" -> 0 - 2

\* attributeName.split('^')[0]: an attribute name of the options is written
\* as the sequence of its '^'-separated parts
FindAttribute(attributeName) ==
  { k \in DOMAIN attributes : attributes[k].name = attributeName[1] }

\* a resolution that falls back on the last configured attribute when the
\* name is not found
ResolveAttributes_Fallback(names) ==
  [n \in DOMAIN names |->
     LET found == FindAttribute(names[n])
         k == IF found = {} THEN Len(attributes)
              ELSE CHOOSE x \in found : \A y \in found : x <= y
     IN [name |-> attributes[k].name, storage |-> StorageName(attributes[k]),
         boost |-> IF Len(names[n]) > 1 THEN ParseFloat(names[n][2]) ELSE ParseFloat("1"),
         found |-> TRUE]]

\* the map callback over options.attributes: the attribute found for each
\* name, with its boost (parseFloat(attributeName.split('^')[1] || '1'))
ResolveAttributes(names) ==
  [n \in DOMAIN names |->
     LET found == FindAttribute(names[n])
     IN IF found = {} THEN [found |-> FALSE]
        ELSE LET k == CHOOSE x \in found : \A y \in found : x <= y
             IN [name |-> attributes[k].name, storage |-> StorageName(attributes[k]),
                 boost |-> IF Len(names[n]) > 1 THEN ParseFloat(names[n][2])
                           ELSE ParseFloat("1"),
                 found |-> TRUE]]

\* ?? this.attributes: every configured attribute, without a boost
AllAttributes ==
  [k \in DOMAIN attributes |->
     [name |-> attributes[k].name, storage |-> StorageName(attributes[k]),
      boost |-> 1, found |-> TRUE]]

\* [...new Set(tokens.map(token => token.text))]
Words(query) == EntryKeys(analyze(query), {})

IdleSearch ==
  [op |-> "search", pc |-> "idle", query |-> << >>,
   options |-> [attributes |-> [defined |-> FALSE, names |-> << >>],
                maxItems |-> 100, minScore |-> 0],
   attrs |-> << >>, docCount |-> 0, tokenCountMap |-> EmptyMap,
   candidates |-> << >>, i |-> 1, j |-> 1, consumedCapacity |-> 0, items |-> << >>,
   pageItems |-> 1, reads |-> 0, charged |-> 0, lookups |-> << >>,
   eventsAtCall |-> 0, quiet |-> TRUE]

\* the loop heads of search: the next (attribute, word) pair to look up, or
\* the end of the loops
RECURSIVE NextLookup(_)
NextLookup(l) ==
  IF l.i > Len(l.attrs) THEN [l EXCEPT !.pc = "filter"]
  ELSE IF l.j > Len(Words(l.query)) THEN NextLookup([l EXCEPT !.i = @ + 1, !.j = 1])
  ELSE [l EXCEPT !.pc = "lookup"]

\* search up to its first store call: the attribute names are resolved, an
\* unknown one throws 'Attribute not found'
NewSearch(query, options, pageItems) ==
  LET attrs == IF options.attributes.defined
               THEN ResolveAttributes(options.attributes.names)
               ELSE AllAttributes
      l == [IdleSearch EXCEPT !.query = query, !.options = options,
                              !.pageItems = pageItems]
  IN IF \E n \in DOMAIN attrs : ~attrs[n].found
     THEN [l EXCEPT !.pc = "threw"]
     ELSE [l EXCEPT !.pc = "getMetadata", !.attrs = attrs]

\* candidates.get(encodedKeys) ?? 0
CandidateGet(candidates, key) ==
  IF \E c \in DOMAIN candidates : candidates[c].key = key
  THEN candidates[CHOOSE c \in DOMAIN candidates : candidates[c].key = key].score
  ELSE Finite(0)

\* candidates.set(encodedKeys, score): a key already in the Map keeps its place
CandidateSet(candidates, key, score) ==
  IF \E c \in DOMAIN candidates : candidates[c].key = key
  THEN [c \in DOMAIN candidates |->
          IF candidates[c].key = key THEN [key |-> key, score |-> score]
          ELSE candidates[c]]
  ELSE Append(candidates, [key |-> key, score |-> score])

\* Items.forEach(...): the score of every returned posting is added to its
\* document's candidate
RECURSIVE Accumulate(_, _, _, _, _, _)
Accumulate(candidates, found, n, attr, docCount, tokenCountMap) ==
  IF found = << >> THEN candidates
  ELSE LET item == Head(found)
           score == PostingScore(attr.boost, item.s.occ, item.s.len, n,
                                 docCount, tokenCountMap, attr.name)
       IN Accumulate(
            CandidateSet(candidates, item.k, AddScore(CandidateGet(candidates, item.k), score)),
            Tail(found), n, attr, docCount, tokenCountMap)

\* .filter(([, score]) => score >= minScore)
FilterByScore(entries, minScore) == SelectSeq(entries, LAMBDA e : AtLeast(e.score, minScore))

\* a sort in ascending order of the score
RECURSIVE SortByScore_Ascending(_)
SortByScore_Ascending(entries) ==
  IF entries = << >> THEN << >>
  ELSE LET sorted == SortByScore_Ascending(SubSeq(entries, 1, Len(entries) - 1))
           e == entries[Len(entries)]
           before == SelectSeq(sorted, LAMBDA x : ~Above(x.score, e.score))
           after == SelectSeq(sorted, LAMBDA x : Above(x.score, e.score))
       IN before \o << e >> \o after

\* .sort(([, score_A], [, score_B]) => score_B - score_A): a stable sort in
\* descending order of the score (the difference of two equal scores, 0 or
\* the NaN of Infinity - Infinity, leaves the two in their order)
RECURSIVE SortByScore(_)
SortByScore(entries) ==
  IF entries = << >> THEN << >>
  ELSE LET sorted == SortByScore(SubSeq(entries, 1, Len(entries) - 1))
           e == entries[Len(entries)]
           before == SelectSeq(sorted, LAMBDA x : ~Above(e.score, x.score))
           after == SelectSeq(sorted, LAMBDA x : Above(e.score, x.score))
       IN before \o << e >> \o after

\* getDecodedKeys: { [partitionKeyName]: decodeKeys(str)[0] }
getDecodedKeys(str) == [Id |-> decodeKeys(str)[1]]

\* the items search returns
ResultItems(candidates, options) ==
  LET kept == Slice(SortByScore(FilterByScore(candidates, options.minScore)),
                    0, options.maxItems)
  IN [r \in DOMAIN kept |-> [keys |-> getDecodedKeys(kept[r].key), score |-> kept[r].score]]

\* the code between two store calls of search, and its return
SettleSearch(l) ==
  LET n == NextLookup(l)
  IN IF n.pc = "filter"
     THEN [n EXCEPT !.pc = "returned", !.items = ResultItems(n.candidates, n.options)]
     ELSE n

\* the score the callback of Items.forEach computes for each item of a page
ItemScores(found, attr, docCount, tokenCountMap) ==
  [x \in DOMAIN found |->
     [key |-> found[x].k,
      score |-> PostingScore(attr.boost, found[x].s.occ, found[x].s.len, Len(found),
                             docCount, tokenCountMap, attr.name)]]

\* one store call of search and the local code up to the next one
StepSearch(tbl, record, l) ==
  CASE l.pc = "getMetadata" ->
         LET m == getMetadata(record)
         IN SettleSearch([l EXCEPT !.docCount = m.docCount,
                                   !.tokenCountMap = m.tokenCount,
                                   !.i = 1, !.j = 1,
                                   !.reads = @ + 1,
                                   !.charged = @ + GetItemCapacityUnits])
    [] l.pc = "lookup" ->
         LET attr == l.attrs[l.i]
             pk == << attr.storage, Words(l.query)[l.j] >>
             r == Query(tbl, pk, l.pageItems)
         IN SettleSearch(
              [l EXCEPT !.consumedCapacity = @ + r.ConsumedCapacity.CapacityUnits,
                        !.candidates = Accumulate(@, r.Items, Len(r.Items), attr,
                                                  l.docCount, l.tokenCountMap),
                        !.j = @ + 1,
                        !.reads = @ + 1,
                        !.charged = @ + r.ConsumedCapacity.CapacityUnits,
                        !.lookups = Append(@, [pk |-> pk, boost |-> attr.boost,
                                               name |-> attr.name,
                                               returned |-> Len(r.Items),
                                               more |-> r.LastEvaluatedKey,
                                               i |-> l.i,
                                               scores |-> ItemScores(r.Items, attr, l.docCount,
                                                                     l.tokenCountMap)])])

Searching(l) == l.op = "search" /\ l.pc \in {"getMetadata", "lookup"}

\* ------------------------------------------------------------------------
\* Searching an index built by failure-free processRecords calls run one at
\* a time: worker 1 indexes, one store call at a time, and worker 2 searches
\* at any moment, also between two store calls of worker 1.  Every document
\* is inserted at most once.
\* ------------------------------------------------------------------------
MaxSearchedEvents == 2

ContentOther ==
  [Title |-> << [w |-> "Item!", n |-> 1] >>,
   Message |-> << [w |-> "New", n |-> 2] >>]

SearchedItems ==
  { ItemOf(id, c) : id \in DocumentIds, c \in { ContentSmall, ContentOther } }

SearchedRecords ==
  { [eventName |-> "INSERT", Keys |-> [Id |-> it.Id], NewImage |-> it] :
      it \in SearchedItems }

SearchedBatches == { b \in SeqsUpTo(SearchedRecords, MaxBatchLen) : b # << >> }

\* the query texts
Queries ==
  { << [w |-> "New", n |-> 1] >>,
    << [w |-> "Item!", n |-> 1] >>,
    << [w |-> "NEW", n |-> 1], [w |-> "Item!", n |-> 1], [w |-> "New", n |-> 1] >>,
    << [w |-> "Old", n |-> 1] >> }

\* options.attributes: absent, or a list of names with optional boosts
AttributeLists ==
  { [defined |-> FALSE, names |-> << >>],
    [defined |-> TRUE, names |-> << << "Title" >> >>],
    [defined |-> TRUE, names |-> << << "Message" >> >>],
    [defined |-> TRUE, names |-> << << "Title", "2" >>, << "Message" >> >>],
    [defined |-> TRUE, names |-> << << "Message" >>, << "Body" >> >>],
    [defined |-> TRUE, names |-> << << "Body" >> >>] }

\* maxItems and minScore: the defaults, a result cut to one item, a
\* threshold of 0.5
Limits ==
  { [maxItems |-> 100, minScore |-> 0],
    [maxItems |-> 1, minScore |-> 0],
    [maxItems |-> 100, minScore |-> ScoreScale \div 2] }

SearchOptions ==
  { [attributes |-> a, maxItems |-> m.maxItems, minScore |-> m.minScore] :
      a \in AttributeLists, m \in Limits }

\* worker 1 hands a batch of INSERT events to processRecords, each for a
\* document that is not indexed
IndexRecords(records) ==
  /\ inv[1].op # "search"
  /\ events + Len(records) <= MaxSearchedEvents
  /\ LegalBatch(docs, records)
  /\ ProcessShard(1, records)

\* search(query, options) is called; the store fits pageItems postings in a
\* page.  eventsAtCall and quiet record the number of events handed to the
\* indexer so far and whether no indexer call was in progress; the program
\* does not read them.
Search(w, query, options, pageItems) ==
  /\ inv[w] = IdleCall
  /\ inv' = [inv EXCEPT ![w] =
               [NewSearch(query, options, pageItems)
                  EXCEPT !.eventsAtCall = events,
                         !.quiet = \A v \in Workers : ~Running(inv[v])]]
  /\ UNCHANGED << store, history >>

\* getMetadata: the GetItem of the metadata record
GetMetadata(w) ==
  /\ inv[w].op = "search" /\ inv[w].pc = "getMetadata"
  /\ inv' = [inv EXCEPT ![w] = StepSearch(table, meta, inv[w])]
  /\ UNCHANGED << store, history >>

\* the Query of one (attribute, word) pair and the scoring of its items
Lookup(w) ==
  /\ inv[w].op = "search" /\ inv[w].pc = "lookup"
  /\ inv' = [inv EXCEPT ![w] = StepSearch(table, meta, inv[w])]
  /\ UNCHANGED << store, history >>

NextSearch ==
  \/ \E records \in SearchedBatches : IndexRecords(records)
  \/ InsertBatch(1)
  \/ UpdateMetadata(1)
  \/ \E query \in Queries, options \in SearchOptions, pageItems \in 1..MaxPageItems :
       Search(2, query, options, pageItems)
  \/ GetMetadata(2)
  \/ Lookup(2)

SpecSearch == Init /\ [][NextSearch]_vars

\* search returned
Returned == inv[2].op = "search" /\ inv[2].pc = "returned"

\* no indexer call was in progress when the search was called and none was
\* started since: the store is as it was during the whole search
Undisturbed(l) == l.quiet /\ l.eventsAtCall = events

\* the postings stored under a partition key
StoredUnder(pk) == { x \in table : x.p = pk }

\* ------------------------------------------------------------------------
\* C15: for each (attribute, token) pair of a query, search retrieves every
\* posting stored under the key attributeKey;token, also when the store
\* answers in more than one page: the number of postings it scored, which it
\* uses as df, is the number of postings stored under the key.
\* The code violates it: search issues one Query per pair and does not
\* follow LastEvaluatedKey.
\* ------------------------------------------------------------------------
C15_LookupRetrievesEveryPosting ==
  (Returned /\ Undisturbed(inv[2]))
    => \A n \in DOMAIN inv[2].lookups :
         inv[2].lookups[n].returned = Cardinality(StoredUnder(inv[2].lookups[n].pk))

\* the candidate an item of the result stands for
CandidateOf(l, item) ==
  { c \in DOMAIN l.candidates :
      /\ getDecodedKeys(l.candidates[c].key) = item.keys
      /\ l.candidates[c].score = item.score }

\* ------------------------------------------------------------------------
\* C16: search returns at most maxItems items, in non-increasing order of
\* score, each a candidate whose accumulated score is at least minScore; a
\* candidate that is not returned has a score below minScore, or the result
\* is full and the candidate's score is no greater than any returned score.
\* ------------------------------------------------------------------------
C16_ResultIsTopOfThreshold ==
  Returned
    => LET l == inv[2]
           returned == UNION { CandidateOf(l, l.items[r]) : r \in DOMAIN l.items }
       IN /\ Len(l.items) <= l.options.maxItems
          /\ \A r \in DOMAIN l.items :
               /\ CandidateOf(l, l.items[r]) # {}
               /\ AtLeast(l.items[r].score, l.options.minScore)
               /\ r > 1 => NotBelow(l.items[r - 1].score, l.items[r].score)
          /\ \A c \in DOMAIN l.candidates :
               c \notin returned
                 => \/ ~AtLeast(l.candidates[c].score, l.options.minScore)
                    \/ /\ Len(l.items) = l.options.maxItems
                       /\ \A r \in DOMAIN l.items :
                            NotBelow(l.items[r].score, l.candidates[c].score)

\* two documents pass the threshold, the result is cut to one item and holds
\* the document that entered the candidates last
C16_Witness ==
  /\ Returned
  /\ inv[2].options.maxItems = 1
  /\ Len(inv[2].candidates) = 2
  /\ Above(inv[2].candidates[2].score, inv[2].candidates[1].score)
  /\ Above(inv[2].candidates[1].score, Finite(inv[2].options.minScore))
  /\ Len(inv[2].items) = 1
  /\ inv[2].items[1].keys = getDecodedKeys(inv[2].candidates[2].key)

\* the (attribute, word, posting) triples of a search that match a document:
\* for every searched attribute and distinct query token, the postings stored
\* under attributeKey;token with the document's encoded key
Matches(l, key) ==
  { << a, w, x >> : a \in DOMAIN l.attrs, w \in DOMAIN Words(l.query),
                    x \in { y \in table : y.k = key } }
    \cap { t \in (DOMAIN l.attrs) \X (DOMAIN Words(l.query)) \X table :
             t[3].p = << l.attrs[t[1]].storage, Words(l.query)[t[2]] >> }

\* the sum of the per-posting scores of a set of matches, df being the number
\* of postings stored under the key
RECURSIVE SumOfScores(_, _)
SumOfScores(l, matches) ==
  IF matches = {} THEN Finite(0)
  ELSE LET t == CHOOSE u \in matches : TRUE
           m == getMetadata(meta)
       IN AddScore(PostingScore(l.attrs[t[1]].boost, t[3].s.occ, t[3].s.len,
                                Cardinality(StoredUnder(t[3].p)),
                                m.docCount, m.tokenCount, l.attrs[t[1]].name),
                   SumOfScores(l, matches \ {t}))

\* ------------------------------------------------------------------------
\* C17: in a search result each document key appears at most once, and its
\* score is the sum of the per-posting scores of every (attribute, token)
\* pair of the query that matched the document, across all searched
\* attributes and all distinct query tokens.
\* The code violates the second part when the postings of a key come in more
\* than one page (C15): a posting outside the first page adds no score, and
\* df is the size of the page.
\* ------------------------------------------------------------------------
C17_ScoreIsSumOverMatches ==
  (Returned /\ Undisturbed(inv[2]))
    => /\ \A r1 \in DOMAIN inv[2].items : \A r2 \in DOMAIN inv[2].items :
            inv[2].items[r1].keys = inv[2].items[r2].keys => r1 = r2
       /\ \A r \in DOMAIN inv[2].items : \A id \in DocumentIds :
            inv[2].items[r].keys = [Id |-> KeyOf(id)]
              => inv[2].items[r].score = SumOfScores(inv[2], Matches(inv[2], EncodedId(id)))

\* every Query of the search was answered in one page
SinglePages == \A n \in DOMAIN inv[2].lookups : ~inv[2].lookups[n].more

\* the search was restricted to the one attribute a, without a boost, with
\* the default minScore and a maxItems no smaller than the number of
\* documents
RestrictedTo(l, a) ==
  /\ l.options.attributes = [defined |-> TRUE, names |-> << << a >> >>]
  /\ l.options.minScore = 0
  /\ l.options.maxItems >= Cardinality(DocumentIds)

\* ------------------------------------------------------------------------
\* C18: on an index built by failure-free processRecords calls run one at a
\* time, with no indexing in progress: when document d is indexed and the
\* query text analyzes to at least one token of attribute a of d, a search
\* of the text restricted to a (default minScore, maxItems at least the
\* number of indexed documents) returns an item whose keys are d's primary
\* key.
\* The code violates it when the postings of the token come in more than one
\* page (C15): the documents outside the first page are not returned.
\* ------------------------------------------------------------------------
C18_IndexedDocumentIsFound ==
  \A a \in AttributeNames :
    (Returned /\ Undisturbed(inv[2]) /\ RestrictedTo(inv[2], a))
      => \A id \in DocumentIds :
           (/\ docs[id].present
            /\ TokensIn(docs[id].content, a)
                 \cap { Words(inv[2].query)[w] : w \in DOMAIN Words(inv[2].query) } # {})
             => \E r \in DOMAIN inv[2].items : inv[2].items[r].keys = [Id |-> KeyOf(id)]

\* the attribute list of the options names an attribute that is not configured
NamesUnknownAttribute(options) ==
  /\ options.attributes.defined
  /\ \E n \in DOMAIN options.attributes.names :
       options.attributes.names[n][1] \notin AttributeNames

\* ------------------------------------------------------------------------
\* C19: search called with an attribute list that names an attribute absent
\* from the configuration fails with 'Attribute not found' before any store
\* read is issued (neither the metadata read nor a range lookup) and returns
\* no result.
\* ------------------------------------------------------------------------
C19_UnknownAttributeFailsFast ==
  (inv[2].op = "search" /\ inv[2].pc # "idle" /\ NamesUnknownAttribute(inv[2].options))
    => /\ inv[2].pc = "threw"
       /\ inv[2].reads = 0
       /\ inv[2].lookups = << >>
       /\ inv[2].items = << >>

\* the unknown attribute comes second in the list, and the index holds
\* postings the first attribute's lookup would have read
C19_Witness ==
  /\ inv[2].op = "search" /\ inv[2].pc = "threw"
  /\ inv[2].options.attributes.names = << << "Message" >>, << "Body" >> >>
  /\ inv[2].reads = 0
  /\ \E w \in DOMAIN Words(inv[2].query) :
       StoredUnder(<< "Message", Words(inv[2].query)[w] >>) # {}

\* ------------------------------------------------------------------------
\* C20: the consumed capacity search returns is the sum of the read capacity
\* the store charged for every range lookup of the search plus the cost of
\* the search's metadata read.
\* The code violates it: getMetadata does not ask for the consumed capacity
\* of its GetItem and search adds only the capacity of its Queries.
\* ------------------------------------------------------------------------
C20_CapacityCoversEveryRead ==
  Returned => inv[2].consumedCapacity = inv[2].charged

\* ------------------------------------------------------------------------
\* The scoring of search on its own: the callback of Items.forEach scores two
\* postings of one lookup that differ in their occurrence only.  The call is
\* held in inv[1]: the bm25 option (k1, b), the boost of the attribute, the
\* two occurrences low < high, the documentTokenCount, the number n of
\* postings the lookup returned, docCount and the token count of the
\* attribute; tf and score hold what the callback computed for each posting.
\* ------------------------------------------------------------------------
MaxOccurrence == 3

Fractions == { [num |-> 0, den |-> 1], [num |-> 3, den |-> 4], [num |-> 1, den |-> 1],
               [num |-> 6, den |-> 5], [num |-> 2, den |-> 1] }

\* bm25.k1 >= 0
K1Options == { f \in Fractions : f.num >= 0 }
\* 0 <= bm25.b <= 1
BOptions == { f \in Fractions : f.num <= f.den }

\* the boosts parseFloat reads from 'Title', 'Title^2' and 'Title^-1'
Boosts == { ParseFloat("1"), ParseFloat("2"), ParseFloat("-1") }

\* the documentCount and the tokenCount of the attribute search reads from
\* the metadata record: counters of an index, and counters that metadata
\* updates of interleaved invocations left at zero or below
DocCounts == { 0 - 2, 0 - 1, 0, 1, 2 }
TokenTotals == { 0 - 2, 0, 1, 4 }

ScoreCall(k1, b, boost, low, high, tokenCount, n, docCount, total) ==
  [op |-> "score", pc |-> "called", k1 |-> k1, b |-> b, boost |-> boost,
   low |-> low, high |-> high, tokenCount |-> tokenCount, n |-> n,
   docCount |-> docCount, tokenCountMap |-> [x \in {"Title"} |-> total],
   tf |-> << >>, score |-> << >>]

InitScore ==
  /\ table = {}
  /\ meta = EmptyMap
  /\ inv \in { [w \in Workers |-> IF w = 1 THEN c ELSE IdleCall] :
                 c \in { ScoreCall(k1, b, boost, low, high, MaxOccurrence, n, docCount, total) :
                           k1 \in K1Options, b \in BOptions, boost \in Boosts,
                           low \in 1..MaxOccurrence, high \in 1..MaxOccurrence,
                           n \in 1..3, docCount \in DocCounts, total \in TokenTotals } }
  /\ inv[1].low < inv[1].high
  /\ events = 0
  /\ docs = [id \in DocumentIds |-> [present |-> FALSE, content |-> ContentNone]]
  /\ lifecycleOK = TRUE
  /\ aborted = FALSE
  /\ redelivered = FALSE
  /\ sentCount = 0
  /\ sentTokens = EmptyMap

\* the callback, applied to the posting of the lower and of the higher
\* occurrence
ScorePostings ==
  /\ inv[1].op = "score" /\ inv[1].pc = "called"
  /\ LET l == inv[1]
         occurrences == << l.low, l.high >>
     IN inv' = [inv EXCEPT ![1] =
                  [l EXCEPT !.pc = "returned",
                            !.tf = [x \in 1..2 |->
                                      TfWith(l.k1, l.b, occurrences[x], l.tokenCount,
                                             l.docCount, l.tokenCountMap, "Title")],
                            !.score = [x \in 1..2 |->
                                         PostingScoreWith(l.k1, l.b, l.boost, occurrences[x],
                                                          l.tokenCount, l.n, l.docCount,
                                                          l.tokenCountMap, "Title")]]]
  /\ UNCHANGED << table, meta, events, docs, lifecycleOK, aborted, redelivered,
                  sentCount, sentTokens >>

NextScore == ScorePostings

SpecScore == InitScore /\ [][NextScore]_vars

Scored == inv[1].op = "score" /\ inv[1].pc = "returned"

\* positive average length: tokenCountMap.get(name) / docCount > 0
PositiveAverage(l) == l.docCount * l.tokenCountMap["Title"] > 0

\* tf of the first posting <= tf of the second
TfNotAbove(tf1, tf2) ==
  ~tf1.nan /\ ~tf2.nan /\ tf1.num * tf2.den <= tf2.num * tf1.den

\* ------------------------------------------------------------------------
\* C21 (as stated): of two postings that differ only in occurrence (k1 >= 0,
\* 0 <= b <= 1, positive average length), the one with the higher occurrence
\* gets a tf, and a score, higher than or equal to the other's.
\* The score half fails when the boost or the idf is negative.
\* ------------------------------------------------------------------------
C21_HigherOccurrenceScoresHigher ==
  (Scored /\ PositiveAverage(inv[1]))
    => /\ TfNotAbove(inv[1].tf[1], inv[1].tf[2])
       /\ NotBelow(inv[1].score[2], inv[1].score[1])

\* ------------------------------------------------------------------------
\* C21 (amended): of two postings that differ only in occurrence (k1 >= 0,
\* 0 <= b <= 1, positive average length), the one with the higher occurrence
\* gets a tf higher than or equal to the other's; its score is higher than
\* or equal to the other's when the boost is not negative and the lookup
\* returned no more postings than docCount (idf >= 0).
\* ------------------------------------------------------------------------
C21_HigherOccurrenceHigherTf ==
  (Scored /\ PositiveAverage(inv[1])) =>
    /\ TfNotAbove(inv[1].tf[1], inv[1].tf[2])
    /\ (inv[1].boost >= 0 /\ inv[1].n <= inv[1].docCount)
         => NotBelow(inv[1].score[2], inv[1].score[1])

\* a boosted attribute under the default bm25 option: the posting of the
\* higher occurrence scores strictly higher
C21_Witness ==
  /\ Scored
  /\ inv[1].k1 = K1 /\ inv[1].b = B /\ inv[1].boost = 2
  /\ PositiveAverage(inv[1])
  /\ inv[1].n <= inv[1].docCount
  /\ Above(inv[1].score[1], Finite(0))
  /\ Above(inv[1].score[2], inv[1].score[1])

\* ------------------------------------------------------------------------
\* Two searches of one index: worker 2 searches, then worker 1 repeats the
\* search (same query, same page size, same index) with the boost of one
\* attribute of the list doubled.
\* ------------------------------------------------------------------------
\* the text of twice a boost
Twice(str) ==
  CASE str = "1" -> "2"
    [] str = "2" -> "4"
    [] str = "3" -> "6"
    [] str = "-1" -> "-2"

\* the attribute name with its boost doubled ('Title' is 'Title^1')
DoubledName(attributeName) ==
  IF Len(attributeName) > 1 THEN << attributeName[1], Twice(attributeName[2]) >>
  ELSE << attributeName[1], Twice("1") >>

BoostedLists ==
  { [defined |-> TRUE, names |-> << << "Title" >> >>],
    [defined |-> TRUE, names |-> << << "Title", "2" >>, << "Message" >> >>],
    [defined |-> TRUE, names |-> << << "Message", "3" >>, << "Title", "-1" >> >>],
    [defined |-> TRUE, names |-> << << "Message" >>, << "Message", "2" >> >>] }

BoostedOptions ==
  { [attributes |-> a, maxItems |-> 100, minScore |-> 0] : a \in BoostedLists }

\* the search of worker 2 again, with the boost of the d-th attribute
\* doubled: worker 1 calls it when its indexing call has returned
SearchDoubled(d) ==
  /\ Returned
  /\ ~Running(inv[1]) /\ inv[1].op # "search"
  /\ d \in DOMAIN inv[2].options.attributes.names
  /\ inv' = [inv EXCEPT ![1] =
               [NewSearch(inv[2].query,
                          [inv[2].options EXCEPT !.attributes.names[d] = DoubledName(@)],
                          inv[2].pageItems)
                  EXCEPT !.eventsAtCall = events, !.quiet = TRUE]]
  /\ UNCHANGED << store, history >>

NextBoost ==
  \/ \E records \in SearchedBatches : IndexRecords(records)
  \/ InsertBatch(1)
  \/ UpdateMetadata(1)
  \/ \E query \in Queries, options \in BoostedOptions, pageItems \in 1..MaxPageItems :
       Search(2, query, options, pageItems)
  \/ GetMetadata(2)
  \/ Lookup(2)
  \/ \E d \in 1..2 : SearchDoubled(d)
  \/ GetMetadata(1)
  \/ Lookup(1)

SpecBoost == Init /\ [][NextBoost]_vars

\* the scores search computed for the postings of document `key` under the
\* a-th attribute of its list, in the order of the lookups
RECURSIVE ScoresOf(_, _, _, _, _)
ScoresOf(l, a, key, n, x) ==
  IF n > Len(l.lookups) THEN << >>
  ELSE IF x > Len(l.lookups[n].scores) THEN ScoresOf(l, a, key, n + 1, 1)
  ELSE IF l.lookups[n].i = a /\ l.lookups[n].scores[x].key = key
       THEN << l.lookups[n].scores[x].score >> \o ScoresOf(l, a, key, n, x + 1)
       ELSE ScoresOf(l, a, key, n, x + 1)

RECURSIVE SumScores(_)
SumScores(scores) ==
  IF scores = << >> THEN Finite(0) ELSE AddScore(Head(scores), SumScores(Tail(scores)))

\* the contribution of the a-th attribute to the score of document `key`
Contribution(l, a, key) == SumScores(ScoresOf(l, a, key, 1, 1))

\* 2 * score
Double(score) == IF score.nan \/ score.inf # 0 THEN score ELSE Finite(2 * score.v)

\* both searches returned
BothReturned ==
  /\ Returned
  /\ inv[1].op = "search" /\ inv[1].pc = "returned"

\* the position of the attribute whose boost the second search doubled
Doubled(a) == inv[1].options.attributes.names[a] # inv[2].options.attributes.names[a]

\* the documents found by either search
FoundKeys ==
  UNION { { inv[w].candidates[c].key : c \in DOMAIN inv[w].candidates } : w \in Workers }

\* ------------------------------------------------------------------------
\* C22: for a fixed query, document and index state, doubling the boost of
\* one attribute exactly doubles the contribution of that attribute to the
\* score of the document and leaves the contribution of every other
\* attribute unchanged; the score of the document is the sum of the
\* contributions.
\* ------------------------------------------------------------------------
C22_DoubledBoostDoublesContribution ==
  (BothReturned /\ Undisturbed(inv[2])) =>
    \A key \in FoundKeys :
      /\ \A a \in DOMAIN inv[2].attrs :
           Contribution(inv[1], a, key)
             = IF Doubled(a) THEN Double(Contribution(inv[2], a, key))
               ELSE Contribution(inv[2], a, key)
      /\ \A w \in Workers :
           CandidateGet(inv[w].candidates, key)
             = SumScores([a \in DOMAIN inv[w].attrs |-> Contribution(inv[w], a, key)])

\* a document that scores under both attributes of the list, the first of
\* which had its boost doubled
C22_Witness ==
  /\ BothReturned /\ Undisturbed(inv[2])
  /\ Len(inv[2].attrs) = 2 /\ Doubled(1)
  /\ \E key \in FoundKeys :
       /\ ~Contribution(inv[2], 1, key).nan /\ Contribution(inv[2], 1, key).v > 0
       /\ ~Contribution(inv[2], 2, key).nan /\ Contribution(inv[2], 2, key).v > 0
       /\ Contribution(inv[1], 1, key).v = 2 * Contribution(inv[2], 1, key).v
       /\ CandidateGet(inv[1].candidates, key).v
            = CandidateGet(inv[2].candidates, key).v + Contribution(inv[2], 1, key).v

\* ------------------------------------------------------------------------
\* C23: a REMOVE event for a document that has no posting completes without
\* error, issues no posting delete and contributes a zero delta to
\* documentCount and to every tokenCount.  Read over the processRecords
\* calls all of whose events are such REMOVE events: the call never stands
\* before a BatchWriteItem of deletes and never throws, the table stays as
\* it was, and the call that returns has sent a count of 0 and no token
\* delta other than 0 to a metadata record whose counters did not move.
\* ------------------------------------------------------------------------
OnlyRemovesOfUnindexed ==
  /\ inv[1].op = "processRecords" /\ inv[1].pc # "idle"
  /\ \A j \in DOMAIN inv[1].records :
       /\ inv[1].records[j].eventName = "REMOVE"
       /\ PostingsOf(inv[1].preTable, IdOfRecord(inv[1].records[j])) = {}

C23_RemoveOfUnindexedIsNeutral ==
  OnlyRemovesOfUnindexed =>
    /\ inv[1].pc \notin {"del", "ins", "threw"}
    /\ table = inv[1].preTable
    /\ inv[1].pc \in {"query", "meta", "done"}
         => /\ inv[1].count = 0
            /\ \A a \in AttributeNames : GetOr0(inv[1].resultMap, a) = 0
    /\ inv[1].pc = "done" => SameCounters(meta, inv[1].preMeta)

\* the call returned: a REMOVE of a document that was never indexed, while
\* the other document is indexed and counted
C23_Witness ==
  /\ OnlyRemovesOfUnindexed /\ inv[1].pc = "done" /\ ~aborted
  /\ table # {}
  /\ DocumentCount(meta) = 1
  /\ \E a \in AttributeNames : TokenCount(meta, a) > 0

\* ------------------------------------------------------------------------
\* createIndexTable and deleteIndexTable.  The call is held in inv[1]: the
\* flag of its options (ifNotExists / ifExists: absent, false or true), the
\* error the store answered its one command with ("none" when the command
\* succeeded) and the error the call rejected with.  exists is the store's
\* side: whether the index table exists; the program does not read it.
\* ------------------------------------------------------------------------
Flags == { "undefined", "false", "true" }

\* the truthiness of an optional boolean
Truthy(flag) == flag = "true"

\* CreateTable: the table exists already, or the command succeeds or fails
\* for another reason
CreateTableErrors(exists) ==
  IF exists THEN { "ResourceInUseException" }
  ELSE { "none", "LimitExceededException", "InternalServerError" }

\* DeleteTable: there is no such table, or the command succeeds or fails for
\* another reason (ResourceInUseException: the table is being created or
\* updated)
DeleteTableErrors(exists) ==
  IF ~exists THEN { "ResourceNotFoundException" }
  ELSE { "none", "ResourceInUseException", "InternalServerError" }

\* a catch clause that swallows every error when the flag is set
CreateIndexTableCatch_AnyError(ifNotExists, error) ==
  IF ~Truthy(ifNotExists) THEN error ELSE "none"

\* createIndexTable, the catch clause: the error it throws again, "none"
\* when it swallows the error
CreateIndexTableCatch(ifNotExists, error) ==
  IF ~(Truthy(ifNotExists) /\ error = "ResourceInUseException") THEN error ELSE "none"

\* deleteIndexTable, the catch clause
DeleteIndexTableCatch(ifExists, error) ==
  IF ~(Truthy(ifExists) /\ error = "ResourceNotFoundException") THEN error ELSE "none"

TableCall(op, flag, exists) ==
  [op |-> op, pc |-> "send", flag |-> flag, error |-> "none", thrown |-> "none",
   exists |-> exists]

TableCallAtRest(l) ==
  l.op \in {"createIndexTable", "deleteIndexTable"} /\ l.pc \in {"idle", "resolved", "rejected"}

InitTable ==
  /\ table = {}
  /\ meta = EmptyMap
  /\ inv \in { [w \in Workers |->
                  IF w = 1 THEN [TableCall("createIndexTable", "undefined", e)
                                   EXCEPT !.pc = "idle"]
                  ELSE IdleCall] : e \in BOOLEAN }
  /\ events = 0
  /\ docs = [id \in DocumentIds |-> [present |-> FALSE, content |-> ContentNone]]
  /\ lifecycleOK = TRUE
  /\ aborted = FALSE
  /\ redelivered = FALSE
  /\ sentCount = 0
  /\ sentTokens = EmptyMap

\* createIndexTable({ ifNotExists }) is called
CreateIndexTable(flag) ==
  /\ TableCallAtRest(inv[1])
  /\ events < MaxEvents
  /\ inv' = [inv EXCEPT ![1] = TableCall("createIndexTable", flag, inv[1].exists)]
  /\ events' = events + 1
  /\ UNCHANGED << store, docs, lifecycleOK, aborted, redelivered, sentCount, sentTokens >>

\* deleteIndexTable({ ifExists }) is called
DeleteIndexTable(flag) ==
  /\ TableCallAtRest(inv[1])
  /\ events < MaxEvents
  /\ inv' = [inv EXCEPT ![1] = TableCall("deleteIndexTable", flag, inv[1].exists)]
  /\ events' = events + 1
  /\ UNCHANGED << store, docs, lifecycleOK, aborted, redelivered, sentCount, sentTokens >>

\* the store answers the CreateTableCommand; createIndexTable returns or throws
SendCreateTable(error) ==
  /\ inv[1].op = "createIndexTable" /\ inv[1].pc = "send"
  /\ error \in CreateTableErrors(inv[1].exists)
  /\ LET thrown == IF error = "none" THEN "none"
                   ELSE CreateIndexTableCatch(inv[1].flag, error)
     IN inv' = [inv EXCEPT ![1] =
                  [@ EXCEPT !.pc = IF thrown = "none" THEN "resolved" ELSE "rejected",
                            !.error = error, !.thrown = thrown,
                            !.exists = IF error = "none" THEN TRUE ELSE @]]
  /\ UNCHANGED << store, history >>

\* the store answers the DeleteTableCommand; deleteIndexTable returns or throws
SendDeleteTable(error) ==
  /\ inv[1].op = "deleteIndexTable" /\ inv[1].pc = "send"
  /\ error \in DeleteTableErrors(inv[1].exists)
  /\ LET thrown == IF error = "none" THEN "none"
                   ELSE DeleteIndexTableCatch(inv[1].flag, error)
     IN inv' = [inv EXCEPT ![1] =
                  [@ EXCEPT !.pc = IF thrown = "none" THEN "resolved" ELSE "rejected",
                            !.error = error, !.thrown = thrown,
                            !.exists = IF error = "none" THEN FALSE ELSE @]]
  /\ UNCHANGED << store, history >>

StoreErrors ==
  { "none", "ResourceInUseException", "ResourceNotFoundException",
    "LimitExceededException", "InternalServerError" }

NextTable ==
  \/ \E flag \in Flags : CreateIndexTable(flag)
  \/ \E flag \in Flags : DeleteIndexTable(flag)
  \/ \E error \in StoreErrors : SendCreateTable(error)
  \/ \E error \in StoreErrors : SendDeleteTable(error)

SpecTable == InitTable /\ [][NextTable]_vars

\* ------------------------------------------------------------------------
\* C24: createIndexTable suppresses exactly the table-already-exists error
\* and only when ifNotExists is set; deleteIndexTable suppresses exactly the
\* table-not-found error and only when ifExists is set; every other store
\* error, and these two when the flag is not set, reject the call with the
\* store's error.
\* ------------------------------------------------------------------------
C24_SuppressesOnlyTheFlaggedError ==
  (inv[1].op \in {"createIndexTable", "deleteIndexTable"}
     /\ inv[1].pc \in {"resolved", "rejected"})
    => LET l == inv[1]
           suppressible == IF l.op = "createIndexTable" THEN "ResourceInUseException"
                           ELSE "ResourceNotFoundException"
       IN /\ l.pc = "resolved"
               <=> (l.error = "none" \/ (l.flag = "true" /\ l.error = suppressible))
          /\ l.pc = "rejected" => l.thrown = l.error
          /\ l.pc = "resolved" => l.thrown = "none"

\* the last of MaxEvents calls: createIndexTable with ifNotExists returned
\* although the store answered that the table exists
C24_Witness ==
  /\ inv[1].op = "createIndexTable" /\ inv[1].pc = "resolved"
  /\ inv[1].flag = "true" /\ inv[1].error = "ResourceInUseException"
  /\ inv[1].exists
  /\ events = MaxEvents

\* ------------------------------------------------------------------------
\* exportTokensAsFile.  A Buffer is written to the file as its base64 text.
\* The first six bytes of the sort key (the two counters) make two groups of
\* three bytes, that is eight base64 digits, given here by their values
\* 0..63; the digits of the eight hash bytes that follow, and those of the
\* hash byte, depend on the digest only and are kept as the tagged bytes.
\* ------------------------------------------------------------------------
\* the bytes writeUInt16BE and writeUInt32BE store
CounterBytes(s) ==
  << s.occ \div 256, s.occ % 256,
     s.len \div 16777216, (s.len \div 65536) % 256, (s.len \div 256) % 256, s.len % 256 >>

\* the four base64 digits of three bytes
Base64Group(b1, b2, b3) ==
  << b1 \div 4, (b1 % 4) * 16 + b2 \div 16, (b2 % 16) * 4 + b3 \div 64, b3 % 64 >>

\* buffer.toString('base64') of the 14-byte sort key
SortKeyToBase64(s) ==
  LET b == CounterBytes(s)
  IN [digits |-> Base64Group(b[1], b[2], b[3]) \o Base64Group(b[4], b[5], b[6]),
      rest |-> << "base64", s.hash >>]

\* hash.subarray(0, 1).toString('base64')
HashToBase64(h) == << "base64", h >>

\* an exported posting that carries the occurrence as counted, not capped
ExportedItem_Uncapped(item, attr, token, occurrence, resultLength) ==
  LET encodedKeys == getEncodedKeys(item)
      hash == md5(encodedKeys)
  IN [p |-> [S |-> << StorageName(attr), token >>],
      s |-> [B |-> SortKeyToBase64([occ |-> occurrence, len |-> resultLength,
                                    hash |-> HashPrefix(hash, 8)])],
      k |-> [S |-> encodedKeys],
      h |-> [B |-> HashToBase64(HashPrefix(hash, 1))]]

\* the `data` of one posting, in DynamoDB JSON
ExportedItem(item, attr, token, occurrence, resultLength) ==
  LET encodedKeys == getEncodedKeys(item)
      hash == md5(encodedKeys)
  IN [p |-> [S |-> << StorageName(attr), token >>],
      s |-> [B |-> SortKeyToBase64([occ |-> Min(MaxUInt16, occurrence),
                                    len |-> resultLength,
                                    hash |-> HashPrefix(hash, 8)])],
      k |-> [S |-> encodedKeys],
      h |-> [B |-> HashToBase64(HashPrefix(hash, 1))]]

\* the metadata item exportTokensAsFile appends: dc carries `inserted`
ExportedMetadata(inserted, resultMap) ==
  [name \in { ATTR_META_DOCUMENT_COUNT }
            \cup { TokenCountName(ShortNameOf(a)) : a \in DOMAIN resultMap } |->
     IF name = ATTR_META_DOCUMENT_COUNT THEN inserted
     ELSE resultMap[CHOOSE a \in DOMAIN resultMap : TokenCountName(ShortNameOf(a)) = name]]

\* the loop over the attributes: text grows by one line per token
RECURSIVE ExportAttributes(_, _, _, _, _)
ExportAttributes(item, i, inserted, resultMap, text) ==
  IF i > Len(attributes) THEN [inserted |-> inserted, resultMap |-> resultMap, text |-> text]
  ELSE LET attr == attributes[i]
           result == AnalyzeAttribute(item, attr.name)
           entries == Entries(result)
           rm == MapSet(resultMap, attr.name,
                        GetOr0(resultMap, attr.name) + ResultLength(result))
           lines == [j \in DOMAIN entries |->
                       [Item |-> ExportedItem(item, attr, entries[j][1], entries[j][2],
                                              ResultLength(result))]]
       IN ExportAttributes(item, i + 1, inserted + Len(entries), rm, text \o lines)

\* exportTokensAsFile(path, item, resultMap, metadata): the text it appends
\* to the file and the value it returns
exportTokensAsFile(item, resultMap, metadata) ==
  LET r == ExportAttributes(item, 1, 0, resultMap, << >>)
  IN IF metadata
     THEN [r EXCEPT !.text = Append(@, [Item |-> [p |-> [S |-> << "_" >>],
                                                  meta |-> ExportedMetadata(r.inserted,
                                                                            r.resultMap)]])]
     ELSE r

\* one call of exportTokensAsFile: its arguments, its locals text, inserted
\* and resultMap, and file, the lines of the file at path.  pc is
\* "appendFile" while the call awaits appendFile and "returned" afterwards.
IdleExport ==
  [op |-> "exportTokensAsFile", pc |-> "idle", item |-> ItemOf(<< >>, ContentNone),
   metadata |-> TRUE, text |-> << >>, inserted |-> 0, resultMap |-> EmptyMap,
   file |-> << >>]

\* exportTokensAsFile(path, item) or exportTokensAsFile(path, item, new Map(),
\* metadata) is called with the path of a new file: the code up to
\* `await appendFile(path, text)`
ExportTokensAsFile(w, item, metadata) ==
  /\ inv[w] = IdleCall
  /\ LET r == exportTokensAsFile(item, EmptyMap, metadata)
     IN inv' = [inv EXCEPT ![w] =
                  [IdleExport EXCEPT !.pc = "appendFile", !.item = item,
                                     !.metadata = metadata, !.text = r.text,
                                     !.inserted = r.inserted, !.resultMap = r.resultMap]]
  /\ UNCHANGED << store, history >>

\* appendFile writes the text to the file, and exportTokensAsFile returns
\* { inserted, resultMap }
AppendFile(w) ==
  /\ inv[w].op = "exportTokensAsFile" /\ inv[w].pc = "appendFile"
  /\ inv' = [inv EXCEPT ![w] = [@ EXCEPT !.file = @ \o inv[w].text,
                                          !.pc = "returned"]]
  /\ UNCHANGED << store, history >>

InsertRecords == { r \in Records : r.eventName = "INSERT" }

\* worker 1 indexes documents through processRecords, one INSERT event per
\* call; worker 2 exports a document to a file
NextExport ==
  \/ \E record \in InsertRecords : ProcessRecords(1, << record >>)
  \/ InsertBatch(1)
  \/ UpdateMetadata(1)
  \/ \E item \in Items, metadata \in BOOLEAN : ExportTokensAsFile(2, item, metadata)
  \/ AppendFile(2)

SpecExport == Init /\ [][NextExport]_vars

\* the bytes of base64 digits: three bytes per group of four digits
Base64GroupBytes(d1, d2, d3, d4) ==
  << d1 * 4 + d2 \div 16, (d2 % 16) * 16 + d3 \div 4, (d3 % 4) * 64 + d4 >>

\* the posting a reader of the file gets from a line: the binary values
\* decoded from base64, the counters read back from their bytes
ImportedItem(line) ==
  LET d == line.Item.s.B.digits
      b == Base64GroupBytes(d[1], d[2], d[3], d[4]) \o Base64GroupBytes(d[5], d[6], d[7], d[8])
  IN [p |-> line.Item.p.S,
      s |-> [occ |-> b[1] * 256 + b[2],
             len |-> ((b[3] * 256 + b[4]) * 256 + b[5]) * 256 + b[6],
             hash |-> line.Item.s.B.rest[2]],
      k |-> line.Item.k.S,
      h |-> line.Item.h.B[2]]

\* the lines of the file that are postings
PostingLines(text) == SelectSeq(text, LAMBDA line : "s" \in DOMAIN line.Item)

\* worker 1 returned from indexing, on its own, the document worker 2
\* exported, which had no posting before
ExportedAndInserted ==
  /\ inv[2].op = "exportTokensAsFile" /\ inv[2].pc = "returned"
  /\ inv[1].pc = "done" /\ SingleRecord("INSERT")
  /\ inv[1].records[1].NewImage = inv[2].item
  /\ PostingsOf(inv[1].preTable, IdOfRecord(inv[1].records[1])) = {}

\* ------------------------------------------------------------------------
\* C25: the posting records exportTokensAsFile serializes are exactly the
\* postings insertTokens writes for the same document (same partition key,
\* same 14-byte sort key, same encoded key, same hash byte), one line per
\* posting, and both return the same posting count and the same
\* per-attribute token deltas.
\* ------------------------------------------------------------------------
C25_ExportWritesThePostingsOfInsert ==
  ExportedAndInserted =>
    LET lines == PostingLines(inv[2].file)
    IN /\ { ImportedItem(lines[x]) : x \in DOMAIN lines }
            = PostingsOf(table, IdOfRecord(inv[1].records[1]))
       /\ Len(lines) = Cardinality(PostingsOf(table, IdOfRecord(inv[1].records[1])))
       /\ inv[2].inserted = inv[1].inserted
       /\ inv[2].inserted = Len(lines)
       /\ \A a \in AttributeNames :
            GetOr0(inv[2].resultMap, a) = GetOr0(inv[1].resultMap, a)

\* the document whose token occurs 65536 times, exported with the metadata
\* line and indexed while the other document is in the index
C25_Witness ==
  /\ ExportedAndInserted
  /\ inv[2].metadata
  /\ inv[2].inserted = 2
  /\ \E x \in DOMAIN inv[2].file :
       /\ "s" \in DOMAIN inv[2].file[x].Item
       /\ ImportedItem(inv[2].file[x]).s.occ = MaxUInt16
       /\ ImportedItem(inv[2].file[x]).s.len = MaxUInt16 + 2
  /\ table # PostingsOf(table, IdOfRecord(inv[1].records[1]))

\* ------------------------------------------------------------------------
\* PathHierarchyTokenizer.  A string is the sequence of its characters; the
\* call is held in inv[1].
\* ------------------------------------------------------------------------
MaxPathLen == 4

\* str.split(delimiter), for a delimiter of one character: the segments
\* between the delimiters, `current` being the segment under construction
RECURSIVE SplitScan(_, _, _, _)
SplitScan(str, delimiter, i, current) ==
  IF i > Len(str) THEN << current >>
  ELSE IF str[i] = delimiter
       THEN << current >> \o SplitScan(str, delimiter, i + 1, << >>)
       ELSE SplitScan(str, delimiter, i + 1, Append(current, str[i]))

Split(str, delimiter) == SplitScan(str, delimiter, 1, << >>)

\* segments.join(delimiter)
RECURSIVE Join(_, _)
Join(segments, delimiter) ==
  IF segments = << >> THEN << >>
  ELSE IF Len(segments) = 1 THEN segments[1]
  ELSE segments[1] \o << delimiter >> \o Join(Tail(segments), delimiter)

\* PathHierarchyTokenizer.tokenize
PathHierarchyTokenize(str, delimiter) ==
  LET segments == Tail(Split(str, delimiter))
  IN [i \in DOMAIN segments |->
        [text |-> << delimiter >> \o Join(SubSeq(segments, 1, i), delimiter)]]

PathDelimiter == "/"

PathChars == { "a", "b", PathDelimiter }

PathCall(str) ==
  [op |-> "PathHierarchyTokenizer.tokenize", pc |-> "called", str |-> str,
   delimiter |-> PathDelimiter, tokens |-> << >>]

InitPath ==
  /\ table = {}
  /\ meta = EmptyMap
  /\ inv \in { [w \in Workers |-> IF w = 1 THEN PathCall(str) ELSE IdleCall] :
                 str \in SeqsUpTo(PathChars, MaxPathLen) }
  /\ events = 0
  /\ docs = [id \in DocumentIds |-> [present |-> FALSE, content |-> ContentNone]]
  /\ lifecycleOK = TRUE
  /\ aborted = FALSE
  /\ redelivered = FALSE
  /\ sentCount = 0
  /\ sentTokens = EmptyMap

TokenizePath ==
  /\ inv[1].op = "PathHierarchyTokenizer.tokenize" /\ inv[1].pc = "called"
  /\ inv' = [inv EXCEPT ![1] =
               [inv[1] EXCEPT !.pc = "returned",
                              !.tokens = PathHierarchyTokenize(inv[1].str,
                                                               inv[1].delimiter)]]
  /\ UNCHANGED << store, history >>

NextPath == TokenizePath

SpecPath == InitPath /\ [][NextPath]_vars

\* the lengths of the non-empty prefixes of str that end just before a
\* delimiter or at the end of str
Boundaries(str, delimiter) ==
  { n \in 1..Len(str) : n = Len(str) \/ str[n + 1] = delimiter }

\* ------------------------------------------------------------------------
\* C27: every token PathHierarchyTokenizer emits is a non-empty prefix of
\* the input that ends exactly at a delimiter boundary or at the end of the
\* input, there is one token per boundary, and the tokens are ordered from
\* the shortest to the longest.
\* The code violates it for an input that does not start with the
\* delimiter: the text before the first delimiter is dropped and every token
\* starts with a delimiter the input does not start with.
\* ------------------------------------------------------------------------
C27_TokensArePrefixesAtBoundaries ==
  (inv[1].op = "PathHierarchyTokenizer.tokenize" /\ inv[1].pc = "returned")
    => LET str == inv[1].str
           tokens == inv[1].tokens
       IN /\ \A i \in DOMAIN tokens :
               /\ Len(tokens[i].text) \in Boundaries(str, inv[1].delimiter)
               /\ tokens[i].text = SubSeq(str, 1, Len(tokens[i].text))
          /\ Len(tokens) = Cardinality(Boundaries(str, inv[1].delimiter))
          /\ \A i \in DOMAIN tokens : \A j \in DOMAIN tokens :
               i < j => Len(tokens[i].text) < Len(tokens[j].text)

\* ------------------------------------------------------------------------
\* Analyzer.analyze over a configured pipeline.  Character filters and token
\* filters are functions the application supplies; the model configures the
\* analyzer with sequences drawn from two character filters
\* (str => str.toUpperCase() and str => str.replace(/NEW/g, 'Old')) and two
\* token filters (LowerCaseFilter() and StopFilter({ stopWords: ['new'] })),
\* around StandardTokenizer.  `applied` lists the stages in the order in
\* which they were called; the program does not read it.
\* ------------------------------------------------------------------------
MaxFilters == 2

ToUpperCase(word) ==
  CASE word = "New" -> "NEW"
    [] word = "Item!" -> "ITEM!"
    [] word = "Old" -> "OLD"
    [] OTHER -> word

CharFilterNames == { "toUpperCase", "replaceNEW" }

TokenFilterNames == { "LowerCaseFilter", "StopFilter" }

\* this.charFilters[i](text)
CharFilter(name, text) ==
  CASE name = "toUpperCase" -> [r \in DOMAIN text |-> [text[r] EXCEPT !.w = ToUpperCase(@)]]
    [] name = "replaceNEW" ->
         [r \in DOMAIN text |-> [text[r] EXCEPT !.w = IF @ = "NEW" THEN "Old" ELSE @]]

\* StopFilter({ stopWords: ['new'] }): tokens.filter(token => !stopWordSet.has(token.text))
StopFilter(tokens) == SelectSeq(tokens, LAMBDA token : token.text \notin { "new" })

\* this.filters[i](tokens)
TokenFilter(name, tokens) ==
  CASE name = "LowerCaseFilter" -> LowerCaseFilter(tokens)
    [] name = "StopFilter" -> StopFilter(tokens)

\* for (let i = 0; i < this.charFilters.length; i++) text = this.charFilters[i](text)
RECURSIVE CharFilterLoop(_, _, _, _)
CharFilterLoop(charFilters, i, text, applied) ==
  IF i > Len(charFilters) THEN [text |-> text, applied |-> applied]
  ELSE CharFilterLoop(charFilters, i + 1, CharFilter(charFilters[i], text),
                      Append(applied, charFilters[i]))

\* a loop over the token filters that starts from the last one
RECURSIVE TokenFilterLoop_Backwards(_, _, _, _)
TokenFilterLoop_Backwards(filters, i, tokens, applied) ==
  IF i > Len(filters) THEN [tokens |-> tokens, applied |-> applied]
  ELSE TokenFilterLoop_Backwards(filters, i + 1,
                                 TokenFilter(filters[Len(filters) + 1 - i], tokens),
                                 Append(applied, filters[Len(filters) + 1 - i]))

\* for (let i = 0; i < this.filters.length; i++) tokens = this.filters[i](tokens)
RECURSIVE TokenFilterLoop(_, _, _, _)
TokenFilterLoop(filters, i, tokens, applied) ==
  IF i > Len(filters) THEN [tokens |-> tokens, applied |-> applied]
  ELSE TokenFilterLoop(filters, i + 1, TokenFilter(filters[i], tokens),
                       Append(applied, filters[i]))

\* Analyzer.analyze of an analyzer configured with charFilters and filters
AnalyzeWith(charFilters, filters, str) ==
  LET c == CharFilterLoop(charFilters, 1, str, << >>)
      tokens == tokenize(c.text)
  IN TokenFilterLoop(filters, 1, tokens, Append(c.applied, "tokenizer"))

AnalyzedTexts ==
  { << [w |-> "New", n |-> 1] >>,
    ContentSmall.Message,
    << [w |-> "Old", n |-> 2], [w |-> "NEW", n |-> 1] >> }

AnalyzeCall(charFilters, filters, str) ==
  [op |-> "analyze", pc |-> "called", charFilters |-> charFilters, filters |-> filters,
   str |-> str, tokens |-> << >>, applied |-> << >>]

InitAnalyzer ==
  /\ table = {}
  /\ meta = EmptyMap
  /\ inv \in { [w \in Workers |-> IF w = 1 THEN AnalyzeCall(c, f, str) ELSE IdleCall] :
                 c \in SeqsUpTo(CharFilterNames, MaxFilters),
                 f \in SeqsUpTo(TokenFilterNames, MaxFilters),
                 str \in AnalyzedTexts }
  /\ events = 0
  /\ docs = [id \in DocumentIds |-> [present |-> FALSE, content |-> ContentNone]]
  /\ lifecycleOK = TRUE
  /\ aborted = FALSE
  /\ redelivered = FALSE
  /\ sentCount = 0
  /\ sentTokens = EmptyMap

Analyze ==
  /\ inv[1].op = "analyze" /\ inv[1].pc = "called"
  /\ LET r == AnalyzeWith(inv[1].charFilters, inv[1].filters, inv[1].str)
     IN inv' = [inv EXCEPT ![1] = [inv[1] EXCEPT !.pc = "returned", !.tokens = r.tokens,
                                                 !.applied = r.applied]]
  /\ UNCHANGED << store, history >>

NextAnalyzer == Analyze

SpecAnalyzer == InitAnalyzer /\ [][NextAnalyzer]_vars

\* the last character filter applied to what the ones before it made of text
RECURSIVE AfterCharFilters(_, _)
AfterCharFilters(charFilters, text) ==
  IF charFilters = << >> THEN text
  ELSE CharFilter(charFilters[Len(charFilters)],
                  AfterCharFilters(SubSeq(charFilters, 1, Len(charFilters) - 1), text))

\* the last token filter applied to what the ones before it made of tokens
RECURSIVE AfterTokenFilters(_, _)
AfterTokenFilters(filters, tokens) ==
  IF filters = << >> THEN tokens
  ELSE TokenFilter(filters[Len(filters)],
                   AfterTokenFilters(SubSeq(filters, 1, Len(filters) - 1), tokens))

\* ------------------------------------------------------------------------
\* C26: analyze(text) applies every character filter in the configured
\* order, then the single tokenizer, then every token filter in the
\* configured order, and returns the output of the last stage; no stage is
\* skipped, repeated or reordered.
\* ------------------------------------------------------------------------
C26_StagesRunInConfiguredOrder ==
  (inv[1].op = "analyze" /\ inv[1].pc = "returned")
    => /\ inv[1].applied = inv[1].charFilters \o << "tokenizer" >> \o inv[1].filters
       /\ inv[1].tokens
            = AfterTokenFilters(inv[1].filters,
                                tokenize(AfterCharFilters(inv[1].charFilters, inv[1].str)))

\* two character filters that do not commute, and two token filters: 'New'
\* becomes 'Old' only if it is upper-cased before 'NEW' is replaced, and
\* 'Old' becomes 'old' after the stop filter found nothing to remove
C26_Witness ==
  /\ inv[1].op = "analyze" /\ inv[1].pc = "returned"
  /\ inv[1].charFilters = << "toUpperCase", "replaceNEW" >>
  /\ inv[1].filters = << "StopFilter", "LowerCaseFilter" >>
  /\ inv[1].str = ContentSmall.Message
  /\ inv[1].tokens = << [text |-> "old", n |-> 1], [text |-> "item!", n |-> 1],
                        [text |-> "old", n |-> 1] >>

\* ------------------------------------------------------------------------
\* The order of the store operations within one processRecords call.
\* ------------------------------------------------------------------------
\* the table once the first n events of the call are processed in full
TableAfter(l, n) ==
  RunToEnd(l.preTable, l.preMeta,
           NewCall("processRecords", SubSeq(l.records, 1, n), "fresh", {}, EmptyMap,
                   << >>, {}, EmptyMap)).table

\* the postings of the new image of event i that belong to the attributes
\* insertTokens is through with
WrittenSoFar(l) ==
  LET item == NewImageOf(l)
  IN UNION { { PostingItem(item, attributes[k], Entries(AnalyzeAttribute(item, attributes[k].name))[j][1],
                           Entries(AnalyzeAttribute(item, attributes[k].name))[j][2],
                           ResultLength(AnalyzeAttribute(item, attributes[k].name))) :
                 j \in DOMAIN Entries(AnalyzeAttribute(item, attributes[k].name)) } :
             k \in { x \in DOMAIN attributes : x < l.ai } }

\* ------------------------------------------------------------------------
\* C28: within one processRecords call every store operation of event i
\* completes before any store operation of event i+1 is issued, and for a
\* MODIFY event the lookup and the deletion of the old postings complete
\* before any new posting is written.  Read at every store call the
\* invocation stands before: the postings of every document other than the
\* one of event i are those left by the events before i processed in full;
\* before the lookup of event i so are the postings of its document, during
\* its deletes only postings of that state are left, and while the new
\* image of a MODIFY is written the document has the new postings written
\* so far and no other; before the metadata update the table is the one
\* left by all the events.
\* ------------------------------------------------------------------------
C28_EventsInOrderDeleteBeforeInsert ==
  (inv[1].op = "processRecords" /\ Running(inv[1]))
    => LET l == inv[1]
       IN IF l.pc = "meta" THEN table = TableAfter(l, Len(l.records))
          ELSE LET before == TableAfter(l, l.i - 1)
                   id == IdOfRecord(l.records[l.i])
               IN /\ \A other \in DocumentIds \ {id} :
                       PostingsOf(table, other) = PostingsOf(before, other)
                  /\ l.pc = "query" => PostingsOf(table, id) = PostingsOf(before, id)
                  /\ l.pc = "del" => PostingsOf(table, id) \subseteq PostingsOf(before, id)
                  /\ (l.pc = "ins" /\ l.records[l.i].eventName = "MODIFY")
                       => PostingsOf(table, id) = WrittenSoFar(l)

\* the second event of a call, a MODIFY of an indexed document to a new
\* content, stands between the writes of its two attributes, after the first
\* event indexed the other document
C28_Witness ==
  /\ inv[1].op = "processRecords" /\ inv[1].pc = "ins"
  /\ inv[1].i = 2 /\ inv[1].ai = 2
  /\ inv[1].records[2].eventName = "MODIFY"
  /\ inv[1].records[1].eventName = "INSERT"
  /\ IdOfRecord(inv[1].records[1]) # IdOfRecord(inv[1].records[2])
  /\ PostingsOf(inv[1].preTable, IdOfRecord(inv[1].records[1])) = {}
  /\ PostingsOf(table, IdOfRecord(inv[1].records[1])) # {}
  /\ PostingsOf(inv[1].preTable, IdOfRecord(inv[1].records[2])) # {}
  /\ PostingsOf(table, IdOfRecord(inv[1].records[2])) # {}
  /\ PostingsOf(table, IdOfRecord(inv[1].records[2]))
       \cap PostingsOf(inv[1].preTable, IdOfRecord(inv[1].records[2])) = {}

\* ------------------------------------------------------------------------
\* The metadata update of a processRecords call.
\* ------------------------------------------------------------------------
\* the deltas of the events of a call, in order.  The deltas of an event
\* are what a call over this event alone, made when the events before it are
\* processed in full, hands to updateMetadata; tbl is the table the first of
\* the records finds
RECURSIVE EventDeltasFrom(_, _)
EventDeltasFrom(tbl, records) ==
  IF records = << >> THEN << >>
  ELSE LET r == RunToEnd(tbl, EmptyMap,
                         NewCall("processRecords", << Head(records) >>, "fresh", {},
                                 EmptyMap, << >>, {}, EmptyMap))
       IN << [count |-> r.l.count, resultMap |-> r.l.resultMap] >>
            \o EventDeltasFrom(r.table, Tail(records))

EventDeltas(l) == EventDeltasFrom(l.preTable, l.records)

\* the deltas of event j of the call
EventDelta(l, j) == EventDeltas(l)[j]

\* the behaviours of Spec; the property of the metadata update, whose
\* reference runs are long, is checked against it in a run of its own
SpecMetadataUpdate == Init /\ [][Next]_vars

\* the sums of a sequence of deltas
SumOfCountDeltas(deltas) == SumSeq([j \in DOMAIN deltas |-> deltas[j].count])

SumOfTokenDeltas(deltas, a) ==
  SumSeq([j \in DOMAIN deltas |-> GetOr0(deltas[j].resultMap, a)])

\* ------------------------------------------------------------------------
\* C29: every processRecords call that completes issues exactly one
\* metadata update, after all the posting writes and deletes of the batch,
\* and the update carries the sum of the per-event document-count deltas and
\* per-attribute token-count deltas of the whole batch.  Read over the
\* states of a call: until its last store call returned the metadata record
\* is as it was when the call started; the UpdateItem is issued when the
\* table is the one all events leave, with the sums of the deltas of the
\* events as its arguments; the call that returned left the table as it
\* was then and raised every counter by the sum, once.
\* ------------------------------------------------------------------------
C29_OneMetadataUpdateWithBatchSums ==
  (inv[1].op = "processRecords" /\ (Running(inv[1]) \/ inv[1].pc = "done"))
    => LET l == inv[1]
           deltas == EventDeltas(l)
       IN /\ l.pc # "done" => meta = l.preMeta
          /\ l.pc \in {"meta", "done"}
               => /\ table = TableAfter(l, Len(l.records))
                  /\ l.count = SumOfCountDeltas(deltas)
                  /\ \A a \in AttributeNames :
                       GetOr0(l.resultMap, a) = SumOfTokenDeltas(deltas, a)
          /\ l.pc = "done"
               => /\ ATTR_META_DOCUMENT_COUNT \in DOMAIN meta
                  /\ DocumentCount(meta)
                       = DocumentCount(l.preMeta) + SumOfCountDeltas(deltas)
                  /\ \A a \in AttributeNames :
                       TokenCount(meta, a)
                         = TokenCount(l.preMeta, a) + SumOfTokenDeltas(deltas, a)

\* a call over two events returned: it removed one document and indexed
\* another one, so that the one update carried a document delta of 0 and
\* token deltas that are sums of a negative and a positive term
C29_Witness ==
  /\ inv[1].op = "processRecords" /\ inv[1].pc = "done"
  /\ Len(inv[1].records) = 2
  /\ EventDelta(inv[1], 1).count = 0 - 1
  /\ EventDelta(inv[1], 2).count = 1
  /\ inv[1].count = 0
  /\ \E a \in AttributeNames :
       /\ GetOr0(EventDelta(inv[1], 1).resultMap, a) < 0
       /\ GetOr0(EventDelta(inv[1], 2).resultMap, a) > 0
       /\ TokenCount(meta, a) # TokenCount(inv[1].preMeta, a)
  /\ DocumentCount(meta) = DocumentCount(inv[1].preMeta)

\* ------------------------------------------------------------------------
\* The counters against the corpus.
\* ------------------------------------------------------------------------
\* the documents that have at least one posting
IndexedDocuments == { id \in DocumentIds : PostingsOf(table, id) # {} }

\* the sum over a set of documents of the attribute's analyzed token count
RECURSIVE SumOfTokenTotals(_, _)
SumOfTokenTotals(ids, a) ==
  IF ids = {} THEN 0
  ELSE LET id == CHOOSE x \in ids : TRUE
       IN TokenTotal(docs[id].content, a) + SumOfTokenTotals(ids \ {id}, a)

\* ------------------------------------------------------------------------
\* C30: after any sequence of processRecords calls that all returned, run
\* one at a time, each batch delivered once, over events that follow the
\* document lifecycle, documentCount is the number of documents that have at
\* least one posting and every tokenCount is the sum, over those documents,
\* of the attribute's analyzed token count.
\* The code violates the tokenCount half: deleteTokens subtracts the stored
\* occurrences, which are capped at 65535, where insertTokens added the
\* number of tokens.
\* ------------------------------------------------------------------------
C30_CountersMatchTheIndexedCorpus ==
  (AtRest /\ lifecycleOK /\ ~redelivered)
    => /\ DocumentCount(meta) = Cardinality(IndexedDocuments)
       /\ \A a \in AttributeNames :
            TokenCount(meta, a) = SumOfTokenTotals(IndexedDocuments, a)

\* ------------------------------------------------------------------------
\* C31: in every state of the store, the states in the middle of a
\* processRecords batch included, the number of postings stored under a
\* partition key (attribute, token) is at most the stored documentCount, so a
\* search never reads postings while documentCount is 0.
\* The code violates it: insertTokens writes the postings of every record of
\* the batch before updateMetadata, the last store call of processRecords,
\* counts the documents.  A search that reads the store in between ranks
\* with N = 0 and n >= 1.
\* ------------------------------------------------------------------------
C31_PostingsNeverExceedDocumentCount ==
  lifecycleOK
    => \A x \in table : Cardinality(StoredUnder(x.p)) <= DocumentCount(meta)

\* ------------------------------------------------------------------------
\* Two processRecords invocations on the same document: worker 1 indexes
\* the document, then each worker receives one MODIFY event for it and the
\* store calls of the invocations interleave freely.
\* ------------------------------------------------------------------------
SharedDocument == << "1", "0", "1" >>

\* the INSERT that indexes the shared document, with an image that has tokens
SharedSetups ==
  { << [eventName |-> "INSERT", Keys |-> [Id |-> KeyOf(SharedDocument)],
        NewImage |-> ItemOf(SharedDocument, c)] >> :
      c \in { ContentSmall, ContentLong } }

\* the MODIFY events for the shared document
SharedModifies ==
  { << [eventName |-> "MODIFY", Keys |-> [Id |-> KeyOf(SharedDocument)],
        NewImage |-> ItemOf(SharedDocument, c)] >> : c \in Contents }

\* worker 1 is handed the INSERT event of the shared document, the first
\* event of the stream
IndexShared(records) ==
  /\ \A w \in Workers : inv[w] = IdleCall
  /\ events = 0
  /\ ProcessShard(1, records)

\* worker w is handed a MODIFY event of the shared document, once: worker 1
\* after its INSERT call returned, worker 2 at any moment after the INSERT
\* event
ModifyShared(w, records) ==
  /\ IF w = 1 THEN inv[1].pc = "done" /\ inv[1].records \in SharedSetups
     ELSE inv[w] = IdleCall
  /\ docs[SharedDocument].present
  /\ ProcessShard(w, records)

NextRace ==
  \/ \E records \in SharedSetups : IndexShared(records)
  \/ \E w \in Workers :
       \/ \E records \in SharedModifies : ModifyShared(w, records)
       \/ DeleteQuery(w)
       \/ DeleteBatch(w)
       \/ InsertBatch(w)
       \/ UpdateMetadata(w)

SpecRace == Init /\ [][NextRace]_vars

\* both workers returned from a MODIFY of the shared document, each handed
\* over after the INSERT call had returned (the metadata record, which that
\* call writes with its last store call, existed), and the two new images
\* differ
BothModified ==
  /\ \A w \in Workers :
       /\ inv[w].op = "processRecords" /\ inv[w].pc = "done"
       /\ inv[w].records \in SharedModifies
       /\ inv[w].preMeta # EmptyMap
  /\ inv[1].records[1].NewImage # inv[2].records[1].NewImage

\* ------------------------------------------------------------------------
\* C32: when two processRecords invocations apply MODIFY events with
\* different new images to the same indexed document, then under every
\* interleaving, once both returned, the document's postings are exactly the
\* postings of one of the two new images.
\* The code violates it: deleteTokens deletes the postings its Query found,
\* so an invocation that queried before the other one inserted leaves the
\* other's postings in place, and one that queried before the other one
\* deleted deletes nothing new; postings of both images, or of the old
\* image, remain.
\* ------------------------------------------------------------------------
C32_ConcurrentModifiesLastWriteWins ==
  BothModified
    => \E w \in Workers :
         PostingsOf(table, SharedDocument) = NewImagePostings(inv[w].records[1].NewImage)

\* ------------------------------------------------------------------------
\* C33: postings of two documents with different encoded keys never occupy
\* the same index record.  When both documents hold the same token in the
\* same attribute with equal occurrence and equal attribute token total,
\* then after both were inserted both postings exist, and removing one
\* document leaves the postings of the other in place.
\* The code violates it: the primary key (p, s) of a posting holds the first
\* 8 bytes of md5(encodedKeys) only (hash.copy(buffer, 6, 0, 8)); the
\* encoded key itself is the plain attribute k.  The encoded keys
\* 'N8694436105886517788' and 'N14630319779100767347' differ and their
\* digests agree in those 8 bytes, so the PutRequest for the document
\* inserted second replaces the posting of the document inserted first.
\* ------------------------------------------------------------------------
\* token t of attribute a occurs equally often in both contents, in values
\* of equal token total
SameCounts(c1, c2, a, t) ==
  /\ t \in TokensIn(c1, a) \cap TokensIn(c2, a)
  /\ Occurrences(c1, a, t) = Occurrences(c2, a, t)
  /\ TokenTotal(c1, a) = TokenTotal(c2, a)

\* the posting of token t of attribute a of the content, stored for document id
HoldsPosting(tbl, id, content, a, t) ==
  \E x \in PostingsOf(tbl, id) :
    /\ x.p = << StoredAs(a), t >>
    /\ x.s.occ = Min(MaxUInt16, Occurrences(content, a, t))
    /\ x.s.len = TokenTotal(content, a)

\* the source table holds the two documents of CollidingIds; nothing is
\* indexed yet
InitCollision ==
  /\ table = {}
  /\ meta = EmptyMap
  /\ inv = [w \in Workers |-> IdleCall]
  /\ events = 0
  /\ docs = [id \in CollidingIds |-> [present |-> FALSE, content |-> ContentNone]]
  /\ lifecycleOK = TRUE
  /\ aborted = FALSE
  /\ redelivered = FALSE
  /\ sentCount = 0
  /\ sentTokens = EmptyMap

\* both documents carry the same attribute values
CollidingItems == { ItemOf(id, ContentSmall) : id \in CollidingIds }

CollidingRecords ==
  { [eventName |-> e, Keys |-> [Id |-> it.Id], NewImage |-> it] :
      e \in {"INSERT", "MODIFY"}, it \in CollidingItems }
  \cup { [eventName |-> "REMOVE", Keys |-> [Id |-> KeyOf(id)]] : id \in CollidingIds }

CollidingBatchesByLength ==
  ByLength({ b \in SeqsUpTo(CollidingRecords, MaxBatchLen) : b # << >> })

\* one indexer, one call at a time, every call runs to its return
NextCollision ==
  \/ \E records \in Fitting(CollidingBatchesByLength, 1) : ProcessRecords(1, records)
  \/ DeleteQuery(1)
  \/ DeleteBatch(1)
  \/ InsertBatch(1)
  \/ UpdateMetadata(1)

SpecCollision == InitCollision /\ [][NextCollision]_vars

C33_DocumentsNeverShareAPosting ==
  (AtRest /\ lifecycleOK /\ ~redelivered)
    => \A id1 \in DOMAIN docs : \A id2 \in DOMAIN docs \ {id1} :
         \A a \in AttributeNames :
           \* both inserted: both postings exist
           /\ (docs[id1].present /\ docs[id2].present)
                => \A t \in TokensIn(docs[id1].content, a) :
                     SameCounts(docs[id1].content, docs[id2].content, a, t)
                       => /\ HoldsPosting(table, id1, docs[id1].content, a, t)
                          /\ HoldsPosting(table, id2, docs[id2].content, a, t)
           \* id1 removed by the last call: the postings of id2 stay
           /\ (/\ Completed /\ inv[1].op = "processRecords" /\ inv[1].mode = "fresh"
               /\ inv[1].preDocs[id1].present /\ inv[1].preDocs[id2].present
               /\ \A j \in DOMAIN inv[1].records :
                    /\ IdOfRecord(inv[1].records[j]) = id1
                    /\ inv[1].records[j].eventName = "REMOVE")
                => \A t \in TokensIn(inv[1].preDocs[id1].content, a) :
                     SameCounts(inv[1].preDocs[id1].content,
                                inv[1].preDocs[id2].content, a, t)
                       => /\ HoldsPosting(table, id2, docs[id2].content, a, t)
                          /\ PostingsOf(table, id2) = PostingsOf(inv[1].preTable, id2)
                          /\ PostingsOf(table, id1) = {}

\* ------------------------------------------------------------------------
\* insertTokens and deleteTokens called directly, one call at a time, for
\* documents whose Message holds up to MaxTokens distinct words; insertTokens
\* is called for a document without postings.  The call of
\* the indexer is inv[1]: op, pc ("ins" / "query" / "del" name the store call
\* issued next, "returned" the return), item, and the locals resultMap,
\* items, di, deleted, ai, ej, inserted.  found (what the Query returned) and
\* requests (the RequestItems of every BatchWriteItem call so far, with the
\* index of the attribute for a put) are history.
\* ------------------------------------------------------------------------
\* the number of distinct words of the longest Message
MaxTokens == 26

\* the words w1 .. wn, each written once
WideValue(n) == [k \in 1..n |-> [w |-> "w" \o ToString(k), n |-> 1]]

\* one word, a full batch, a batch and one more, the longest
WideLengths == { 1, BATCH_SIZE, BATCH_SIZE + 1, MaxTokens }

WideItems ==
  { ItemOf(id, [Title |-> << [w |-> "New", n |-> 1] >>, Message |-> WideValue(n)]) :
      id \in DocumentIds, n \in WideLengths }

TokensCall(op, pc, item) ==
  [op |-> op, pc |-> pc, item |-> item, resultMap |-> EmptyMap,
   items |-> << >>, di |-> 0, deleted |-> 0, ai |-> 1, ej |-> 0, inserted |-> 0,
   found |-> << >>, requests |-> << >>]

\* insertTokens between two BatchWriteItem calls: the head of the loop over
\* the attributes, the analysis and the counting of the tokens
RECURSIVE SettleInsert(_)
SettleInsert(l) ==
  IF l.ai > Len(attributes) THEN [l EXCEPT !.pc = "returned"]
  ELSE LET name == attributes[l.ai].name
           result == AnalyzeAttribute(l.item, name)
           rm == MapSet(l.resultMap, name,
                        GetOr0(l.resultMap, name) + ResultLength(result))
       IN IF Entries(result) = << >>
          THEN SettleInsert([l EXCEPT !.resultMap = rm, !.ai = @ + 1])
          ELSE [l EXCEPT !.resultMap = rm, !.pc = "ins", !.ej = 0]

\* insertTokens: one BatchWriteItem of PutRequests and the code up to the next
StepInsert(tbl, l) ==
  LET attr == attributes[l.ai]
      entries == Entries(AnalyzeAttribute(l.item, attr.name))
      puts == PutRequests(l.item, attr, l.ej)
      ej == l.ej + BATCH_SIZE
      sent == Append(l.requests, [ai |-> l.ai, items |-> puts])
  IN [table |-> PutItems(tbl, puts),
      l |-> IF ej < Len(entries)
            THEN [l EXCEPT !.ej = ej, !.requests = sent]
            ELSE SettleInsert([l EXCEPT !.inserted = @ + Len(entries), !.ej = 0,
                                        !.ai = @ + 1, !.requests = sent])]

\* the answers the store may give to the Query on keys-index deleteTokens
\* issues next, no other caller writing to the index: a page cut from the
\* keys that follow the exclusiveStartKey, in the order of SetToSeq, holding
\* all of them or between one and MaxPageItems of them.  A page that leaves
\* keys behind comes with a LastEvaluatedKey, a page that holds the last key
\* comes with or without one, a page without items comes without one.
PostingAnswers(tbl, l) ==
  LET following == SelectSeq(QueryKeysIndex(tbl, getEncodedKeys(l.item)),
                             LAMBDA x : x \notin KeySet(l.items))
  IN { [Items |-> SubSeq(following, 1, cut[1]), LastEvaluatedKey |-> cut[2]] :
         cut \in { c \in ({ Len(following) }
                            \cup { m \in 1..MaxPageItems : m < Len(following) })
                           \X BOOLEAN :
                     /\ c[1] < Len(following) => c[2]
                     /\ c[2] => c[1] > 0 } }

\* deleteTokens after one answer of the Query: items.push(...Items), the next
\* Query while the answer holds a LastEvaluatedKey, the occurrence loop after
\* the last answer
StepPostings(l, answer) ==
  LET items == l.items \o answer.Items
  IN IF answer.LastEvaluatedKey
     THEN [l EXCEPT !.items = items]
     ELSE [l EXCEPT !.resultMap = SubtractOccurrences(l.resultMap, items),
                    !.items = items, !.found = items, !.di = 0, !.deleted = 0,
                    !.pc = IF items = << >> THEN "returned" ELSE "del"]

\* deleteTokens: one BatchWriteItem of DeleteRequests and the code up to the
\* next
StepDelete(tbl, l) ==
  LET keys == Slice(l.items, l.di, l.di + BATCH_SIZE)
      di == l.di + BATCH_SIZE
  IN [table |-> DeleteItems(tbl, keys),
      l |-> [l EXCEPT !.di = di,
                      !.deleted = DeletedAfterBatch(l.deleted, l.items),
                      !.requests = Append(@, [ai |-> 0, items |-> keys]),
                      !.pc = IF di < Len(l.items) THEN "del" ELSE "returned"]]

\* insertTokens(item) is called for a document that has no posting
InsertTokens(item) ==
  /\ inv[1].pc \in {"idle", "returned"}
  /\ events < MaxEvents
  /\ QueryKeysIndex(table, getEncodedKeys(item)) = << >>
  /\ inv' = [inv EXCEPT ![1] = SettleInsert(TokensCall("insertTokens", "attr", item))]
  /\ events' = events + 1
  /\ UNCHANGED << store, docs, lifecycleOK, aborted, redelivered, sentCount, sentTokens >>

\* deleteTokens(item) is called
DeleteTokens(item) ==
  /\ inv[1].pc \in {"idle", "returned"}
  /\ events < MaxEvents
  /\ inv' = [inv EXCEPT ![1] = TokensCall("deleteTokens", "query", item)]
  /\ events' = events + 1
  /\ UNCHANGED << store, docs, lifecycleOK, aborted, redelivered, sentCount, sentTokens >>

\* insertTokens: one BatchWriteItem of PutRequests
PutChunk ==
  /\ inv[1].op = "insertTokens" /\ inv[1].pc = "ins"
  /\ LET r == StepInsert(table, inv[1])
     IN /\ table' = r.table
        /\ inv' = [inv EXCEPT ![1] = r.l]
  /\ UNCHANGED << meta, history >>

\* deleteTokens: one Query on keys-index, answered with a page
QueryPostings ==
  /\ inv[1].op = "deleteTokens" /\ inv[1].pc = "query"
  /\ \E answer \in PostingAnswers(table, inv[1]) :
       inv' = [inv EXCEPT ![1] = StepPostings(inv[1], answer)]
  /\ UNCHANGED << store, history >>

\* deleteTokens: one BatchWriteItem of DeleteRequests
DeleteChunk ==
  /\ inv[1].op = "deleteTokens" /\ inv[1].pc = "del"
  /\ LET r == StepDelete(table, inv[1])
     IN /\ table' = r.table
        /\ inv' = [inv EXCEPT ![1] = r.l]
  /\ UNCHANGED << meta, history >>

NextChunks ==
  \/ \E item \in WideItems : InsertTokens(item)
  \/ \E item \in WideItems : DeleteTokens(item)
  \/ PutChunk
  \/ QueryPostings
  \/ DeleteChunk

SpecChunks == Init /\ [][NextChunks]_vars

\* ------------------------------------------------------------------------
\* C34: deleteTokens returns a deleted count equal to the number of postings
\* it found and deleted for the document, for any number of postings.
\* The code violates it for a document with more than 25 postings: the
\* length of the whole list is added once per BatchWriteItem call.
\* ------------------------------------------------------------------------
C34_DeletedCountsThePostings ==
  (inv[1].op = "deleteTokens" /\ inv[1].pc = "returned")
    => /\ inv[1].deleted = Len(inv[1].found)
       /\ QueryKeysIndex(table, getEncodedKeys(inv[1].item)) = << >>

\* the requests of the calls made for attribute index ai (0: the deletes), in
\* the order they were sent
RECURSIVE RequestsFor(_, _)
RequestsFor(requests, ai) ==
  IF requests = << >> THEN << >>
  ELSE (IF Head(requests).ai = ai THEN Head(requests).items ELSE << >>)
         \o RequestsFor(Tail(requests), ai)

\* every element of the set occurs exactly once in the sequence, and nothing else
EachExactlyOnce(seq, S) ==
  /\ Len(seq) = Cardinality(S)
  /\ { seq[j] : j \in DOMAIN seq } = S

\* the postings insertTokens builds for the attribute at index i
AttributePostings(item, i) ==
  LET result == AnalyzeAttribute(item, attributes[i].name)
  IN { PostingItem(item, attributes[i], Entries(result)[j][1], Entries(result)[j][2],
                   ResultLength(result)) : j \in DOMAIN Entries(result) }

\* ------------------------------------------------------------------------
\* C35: every BatchWriteItem call of insertTokens and deleteTokens carries at
\* least 1 and at most 25 requests; over the calls for one attribute (insert)
\* every posting of the attribute is put exactly once, and over the calls
\* for one document (delete) every posting found is deleted exactly once.
\* ------------------------------------------------------------------------
C35_BatchesOfAtMost25CoverEachPostingOnce ==
  (inv[1].op \in {"insertTokens", "deleteTokens"})
    => /\ \A j \in DOMAIN inv[1].requests :
            /\ Len(inv[1].requests[j].items) >= 1
            /\ Len(inv[1].requests[j].items) <= 25
       /\ (inv[1].op = "insertTokens" /\ inv[1].pc = "returned")
            => \A i \in DOMAIN attributes :
                 EachExactlyOnce(RequestsFor(inv[1].requests, i),
                                 AttributePostings(inv[1].item, i))
       /\ (inv[1].op = "deleteTokens" /\ inv[1].pc = "returned")
            => /\ EachExactlyOnce(RequestsFor(inv[1].requests, 0),
                                  { inv[1].found[j] : j \in DOMAIN inv[1].found })
               /\ Len(RequestsFor(inv[1].requests, 0)) = Len(inv[1].found)

\* the 27 postings of a document with 26 words in Message were deleted with
\* two calls (25 + 2) while the other document keeps its postings
C35_Witness ==
  /\ inv[1].op = "deleteTokens" /\ inv[1].pc = "returned"
  /\ Len(inv[1].found) = BATCH_SIZE + 2
  /\ Len(inv[1].requests) = 2
  /\ Len(inv[1].requests[1].items) = BATCH_SIZE
  /\ Len(inv[1].requests[2].items) = 2
  /\ \E id \in DocumentIds : PostingsOf(table, id) = {} /\ PostingsOf(table, id) # table

\* the metadata item of an exported file: the last line, when it was asked for
ExportedMetadataLine(l) == l.file[Len(l.file)].Item.meta

\* ------------------------------------------------------------------------
\* C36: with metadata enabled, the metadata record exportTokensAsFile
\* appends for a document carries the counters the live path stores after an
\* INSERT of that document into an empty index: dc = 1 when the document
\* produced a posting (0 otherwise) and tc:{attribute} = the attribute's
\* token total.
\* The code violates it: dc carries `inserted`, the number of postings of
\* the document.
\* ------------------------------------------------------------------------
C36_ExportedMetadataMatchesInsert ==
  (/\ ExportedAndInserted /\ inv[2].metadata
   /\ inv[1].preTable = {} /\ inv[1].preMeta = EmptyMap)
    => /\ SameCounters(ExportedMetadataLine(inv[2]), meta)
       /\ DocumentCount(ExportedMetadataLine(inv[2]))
            = (IF HasTokens(ContentOf(inv[2].item)) THEN 1 ELSE 0)
       /\ \A a \in AttributeNames :
            TokenCount(ExportedMetadataLine(inv[2]), a)
              = TokenTotal(ContentOf(inv[2].item), a)

\* ------------------------------------------------------------------------
\* reindex called by one caller, one call at a time: a call may be rejected
\* by a store call, and the caller calls reindex again with the same items,
\* after a rejection (the retry loop of the guide) or after a return.
\* ------------------------------------------------------------------------
ReindexBatches == { b \in SeqsUpTo(Items, MaxBatchLen) : b # << >> }

\* reindex(items) is called with rows of the source table
ReindexItems(w, items) ==
  /\ ~Running(inv[w])
  /\ events + Len(items) <= MaxEvents
  /\ inv' = [inv EXCEPT ![w] =
               NewCall("reindex", items, "fresh", table, meta, docs, table, meta)]
  /\ events' = events + Len(items)
  /\ docs' = [id \in DocumentIds |->
               IF \E j \in DOMAIN items : items[j].Id.value = id
               THEN [present |-> TRUE,
                     content |-> ContentOf(items[
                       CHOOSE j \in DOMAIN items :
                         /\ items[j].Id.value = id
                         /\ \A k \in DOMAIN items :
                              items[k].Id.value = id => k <= j])]
               ELSE docs[id]]
  /\ UNCHANGED << store, lifecycleOK, aborted, redelivered, sentCount, sentTokens >>

\* reindex is called again with the items of the last call: the next attempt
\* of the retry loop when the call was rejected, a second run when it returned
ReindexAgain(w) ==
  /\ inv[w].pc \in {"done", "failed"}
  /\ inv[w].op = "reindex"
  /\ events + Len(inv[w].records) <= MaxEvents
  /\ inv' = [inv EXCEPT ![w] =
               IF inv[w].pc = "failed"
               THEN NewCall("reindex", inv[w].records, "retry",
                            table, meta, inv[w].preDocs,
                            inv[w].firstTable, inv[w].firstMeta)
               ELSE NewCall("reindex", inv[w].records, "again",
                            table, meta, inv[w].preDocs, table, meta)]
  /\ events' = events + Len(inv[w].records)
  /\ redelivered' = TRUE
  /\ UNCHANGED << store, docs, lifecycleOK, aborted, sentCount, sentTokens >>

ReindexBatchesByLength == ByLength(ReindexBatches)

NextReindex ==
  \/ \E items \in Fitting(ReindexBatchesByLength, 1) : ReindexItems(1, items)
  \/ ReindexAgain(1)
  \/ DeleteQuery(1)
  \/ DeleteBatch(1)
  \/ InsertBatch(1)
  \/ UpdateMetadata(1)
  \/ Fail(1)

SpecReindex == Init /\ [][NextReindex]_vars

\* ------------------------------------------------------------------------
\* C37: when reindex(batch) is rejected partway through its store calls and
\* the caller calls reindex again with the same batch until it returns, the
\* postings and the counters are those one failure-free reindex(batch)
\* leaves from the same starting state.
\* The code violates it: the repeated call deletes what the rejected call
\* inserted and subtracts it from deltas the rejected call never stored, or
\* no longer finds what the rejected call deleted.
\* ------------------------------------------------------------------------
C37_ReindexRetryEqualsFailureFree ==
  (inv[1].op = "reindex" /\ inv[1].pc = "done" /\ inv[1].mode = "retry")
    => LET clean == RunToEnd(inv[1].firstTable, inv[1].firstMeta,
                             NewCall("reindex", inv[1].records, "fresh",
                                     inv[1].firstTable, inv[1].firstMeta,
                                     inv[1].preDocs,
                                     inv[1].firstTable, inv[1].firstMeta))
       IN table = clean.table /\ SameCounters(meta, clean.meta)

\* ------------------------------------------------------------------------
\* C38: reindex run twice in succession on the same items, both runs
\* returning, leaves the postings and the metadata (documentCount and every
\* tokenCount) as the first run left them.
\* The code violates it for a document with a token that occurs more than
\* 65535 times: the second run subtracts the stored occurrences and adds the
\* token total.
\* ------------------------------------------------------------------------
C38_ReindexTwiceEqualsOnce ==
  (inv[1].op = "reindex" /\ Completed /\ inv[1].mode = "again")
    => /\ table = inv[1].preTable
       /\ SameCounters(meta, inv[1].preMeta)

====
